---- MODULE Spec2Model ----
(***************************************************************************)
(* surge: multipart upload to and download from Amazon Glacier.            *)
(* The uploader (pkg/uploader) and the downloader (pkg/downloader) as one  *)
(* state machine: the coordinator (Upload / Download), the worker pool of  *)
(* multipartUpload / multipartDownload, and the utils (Range, tree hash).  *)
(* Texts are sequences of one-character strings; byte contents are         *)
(* sequences of small naturals.                                            *)
(***************************************************************************)
EXTENDS Integers, Sequences, FiniteSets, TLC

\* ---------------------------------------------------------------- bounds
MaxSize == 3        \* largest file / archive size, in bytes
MaxPart == 2        \* largest configured part size
MaxJobs == 2        \* largest degree of parallelism
MaxPages == 2       \* most pages a part listing has
MaxParts == 1       \* most parts on one page of a part listing
ChunkBytes == 2     \* bytes per tree-hash leaf (1 MiB in the SDK, scaled)
MaxRuns == 2        \* most Download runs on one job and destination
IntBits == 4        \* width of the source's int64, scaled
MaxStream == 4      \* longest stream given to ComputeTreeHash
MaxText == 4        \* longest text given to RangeFromString
MaxYield == 2       \* a run with part size <= 0 yields without end: the
                    \* yields such a run is followed for

\* ---------------------------------------------------------------- options
None == << >>
Some(x) == << x >>
Min(a, b) == IF a < b THEN a ELSE b

\* ---------------------------------------------------------------- texts
Digit == << "0", "1", "2", "3", "4", "5", "6", "7", "8", "9" >>
IsDigit(c) == \E i \in 1..10 : Digit[i] = c
DigitVal(c) == CHOOSE i \in 0..9 : Digit[i + 1] = c

RECURSIVE FormatNat(_)
FormatNat(n) ==
    IF n < 10 THEN << Digit[n + 1] >>
    ELSE FormatNat(n \div 10) \o << Digit[(n % 10) + 1] >>

\* fmt.Sprint of an int64
FormatInt(n) == IF n < 0 THEN << "-" >> \o FormatNat(-n) ELSE FormatNat(n)

RECURSIVE ParseNat(_)
ParseNat(s) ==
    IF Len(s) = 1 THEN DigitVal(s[1])
    ELSE 10 * ParseNat(SubSeq(s, 1, Len(s) - 1)) + DigitVal(s[Len(s)])

\* the int64 of the source: its largest and smallest value, and the result
\* of an operation that overflows (it wraps around)
MaxInt64 == 2^(IntBits - 1) - 1
MinInt64 == 0 - 2^(IntBits - 1)
Wrap(n) == ((n - MinInt64) % 2^IntBits) + MinInt64

\* strconv.ParseInt(s, 10, 64): an optional sign, then one or more digits;
\* a value that does not fit is an error
ParseInt(s) ==
    LET signed == Len(s) > 0 /\ s[1] \in {"+", "-"}
        digits == IF signed THEN SubSeq(s, 2, Len(s)) ELSE s
        val == IF signed /\ s[1] = "-" THEN 0 - ParseNat(digits) ELSE ParseNat(digits)
    IN  IF Len(digits) = 0 \/ \E i \in 1..Len(digits) : ~IsDigit(digits[i])
        THEN None
        ELSE IF val > MaxInt64 \/ val < MinInt64 THEN None
        ELSE Some(val)

\* strings.Split(s, "-")
RECURSIVE Split(_)
Split(s) ==
    IF \A i \in 1..Len(s) : s[i] # "-" THEN << s >>
    ELSE LET i == CHOOSE k \in 1..Len(s) :
                      s[k] = "-" /\ \A j \in 1..(k - 1) : s[j] # "-"
         IN  << SubSeq(s, 1, i - 1) >> \o Split(SubSeq(s, i + 1, Len(s)))

Range(o, l) == [Offset |-> o, Limit |-> l]

\* a String that writes the end of the range exclusively
RangeStringExclusive(r) ==
    FormatInt(r.Offset) \o << "-" >> \o FormatInt(Wrap(r.Offset + r.Limit))

\* (*Range).String
RangeString(r) ==
    FormatInt(r.Offset) \o << "-" >> \o FormatInt(Wrap(r.Offset + r.Limit - 1))

\* a RangeFromString that returns the range whatever its length is
RangeFromStringUnchecked(s) ==
    LET split == Split(s) IN
    IF Len(split) # 2 THEN None
    ELSE LET begin == ParseInt(split[1])
             end == ParseInt(split[2])
         IN  IF begin = None THEN None
             ELSE IF end = None THEN None
             ELSE Some(Range(begin[1], Wrap(end[1] - begin[1] + 1)))

\* utils.RangeFromString: None is the nil result
RangeFromString(s) ==
    LET split == Split(s) IN
    IF Len(split) # 2 THEN None
    ELSE LET begin == ParseInt(split[1])
             end == ParseInt(split[2])
         IN  IF begin = None THEN None
             ELSE IF end = None THEN None
             ELSE IF Wrap(end[1] - begin[1] + 1) <= 0 THEN None
             ELSE Some(Range(begin[1], Wrap(end[1] - begin[1] + 1)))

\* ---------------------------------------------------------------- tree hash
\* SHA-256 as an injective bracketing of its input (-1 ... -2)
Sha256(b) == << -1 >> \o b \o << -2 >>

RECURSIVE Leaves(_)
Leaves(b) ==
    IF Len(b) = 0 THEN << >>
    ELSE << Sha256(SubSeq(b, 1, Min(ChunkBytes, Len(b)))) >>
         \o Leaves(SubSeq(b, Min(ChunkBytes, Len(b)) + 1, Len(b)))

RECURSIVE PairUp(_)
PairUp(nodes) ==
    IF Len(nodes) = 0 THEN << >>
    ELSE IF Len(nodes) = 1 THEN nodes
    ELSE << Sha256(nodes[1] \o nodes[2]) >> \o PairUp(SubSeq(nodes, 3, Len(nodes)))

RECURSIVE TreeRoot(_)
TreeRoot(nodes) == IF Len(nodes) = 1 THEN nodes[1] ELSE TreeRoot(PairUp(nodes))

HexOf(x) ==
    CASE x = -1 -> << "f", "f" >>
      [] x = -2 -> << "f", "e" >>
      [] OTHER -> << "0", Digit[x + 1] >>

RECURSIVE HexEncode(_)
HexEncode(d) == IF Len(d) = 0 THEN << >> ELSE HexOf(d[1]) \o HexEncode(Tail(d))

\* a ComputeTreeHash that has a digest for a reader that yields nothing
ComputeTreeHashOfNothing(b) ==
    IF Leaves(b) = << >> THEN Some(HexEncode(Sha256(<< >>)))
    ELSE Some(HexEncode(TreeRoot(Leaves(b))))

\* utils.ComputeTreeHash of a reader that yields the bytes b
ComputeTreeHash(b) ==
    IF Leaves(b) = << >> THEN None ELSE Some(HexEncode(TreeRoot(Leaves(b))))

\* io.NewSectionReader(file, off, n) over a file holding d: what it yields
SectionBytes(d, off, n) ==
    IF n <= 0 \/ off < 0 \/ off >= Len(d) THEN << >>
    ELSE SubSeq(d, off + 1, Min(off + n, Len(d)))

\* a hash no content has
StaleHash == HexEncode(Sha256(<< >>))

RECURSIVE SeqsOf(_, _)
SeqsOf(S, n) ==
    IF n = 0 THEN { << >> }
    ELSE SeqsOf(S, n - 1)
         \cup { Append(q, x) : q \in { t \in SeqsOf(S, n - 1) : Len(t) = n - 1 }, x \in S }

\* the contents a file or an archive can have: bytes of ones, the last byte
\* possibly a zero (the value Truncate fills a file with)
Bytes == { 0, 1 }
Contents ==
    { c \in SeqsOf(Bytes, MaxSize) : \A i \in 1..(Len(c) - 1) : c[i] = 1 }

\* ---------------------------------------------------------------- state
VARIABLES
    mode,       \* "upload" or "download": which coordinator runs
    partSize,   \* input.PartSize
    jobs,       \* the jobs argument of Upload / Download
    uploadId,   \* input.UploadId ("" = none)
    data,       \* upload: the source file's bytes; download: the archive's bytes
    dest,       \* download: the destination path, [exists, dir, content, by,
                \* writes] (by = the run that created it, 0 = it was there
                \* before; writes = the WriteAt calls made on it, each with its
                \* range's index, its offset and the number of bytes written)
    run,        \* download: the number of the Download run on this destination
    rng,        \* the Range that String is called on (None = no such call)
    rangeText,  \* the text RangeFromString is called on
    parsed,     \* what that call returned (None = nil, or no call yet)
    file,       \* the file handle: "none", "open", "closed"
    size,       \* s.size / d.size
    offset,     \* s.offset / d.offset: the cursor
    uploaded,   \* s.uploaded: the confirmed offsets
    treeHash,   \* d.treeHash: the expected whole-archive hash (None = nil)
    pc,         \* the coordinator's position
    more,       \* the part listing has a further page
    closed,     \* the parts channel is closed
    wk,         \* the workers: [st, idx]
    yielded,    \* the ranges getNextRange returned, in order
    invoked,    \* per yielded range: how often the per-range function ran
    result,     \* per yielded range: "queued", "running", or what Outcome gives
    examined,   \* the listed parts checkPart was called on, in order
    listed,     \* the parts of the pages the listing returned, in order
    declared,   \* the part sizes the fetched pages of the listing declared
    calls,      \* remote calls made, by operation
    reqs,       \* the part uploads / range fetches / completion sent
    completion, \* what completeUpload returned ("" = not called yet)
    location,   \* the location completeUpload returned (None = nil)
    job,        \* what DescribeJob answered to checkJob (None = not asked yet)
    ret         \* what Upload / Download returned ("" = still running)

vars == << mode, partSize, jobs, run, rng, rangeText, parsed, uploadId, data, dest, file, size, offset,
           uploaded, treeHash, pc, more, closed, wk, yielded, invoked, result,
           examined, listed, declared, calls, reqs, completion, location, job, ret >>

env == << mode, partSize, jobs, run, rng, rangeText, parsed >>
pool == << closed, wk, yielded, invoked, result >>
listing == << examined, listed, declared >>

Workers == 1..MaxJobs
Ops == { "Initiate", "ListParts", "UploadPart", "Complete", "DescribeJob", "GetJobOutput" }
Called(op) == [calls EXCEPT ![op] = @ + 1]

\* ---------------------------------------------------------------- cursor
\* a limit that is not truncated at the end of the file
RangeLimitUntruncated(off, sz, P) == P

\* a limit that always reaches the end of the file
RangeLimitToEnd(off, sz, P) == sz - off

\* the limit of the range at off: the part size, truncated at the end
RangeLimit(off, sz, P) == IF off + P > sz THEN sz - off ELSE P

\* a getNextRange that does not skip the confirmed offsets
UploaderGetNextRangeAll(off, sz, P, up) ==
    IF off >= sz THEN [r |-> None, offset |-> off, spin |-> FALSE]
    ELSE [r |-> Some(Range(off, RangeLimit(off, sz, P))),
          offset |-> off + P, spin |-> FALSE]

\* Uploader.getNextRange on cursor off: the range returned (None = nil), the
\* cursor after the call, and spin when the loop never leaves
RECURSIVE UploaderGetNextRange(_, _, _, _)
UploaderGetNextRange(off, sz, P, up) ==
    IF off >= sz THEN [r |-> None, offset |-> off, spin |-> FALSE]
    ELSE IF off \notin up
         THEN [r |-> Some(Range(off, RangeLimit(off, sz, P))),
               offset |-> off + P, spin |-> FALSE]
    ELSE IF P = 0 THEN [r |-> None, offset |-> off, spin |-> TRUE]
    ELSE UploaderGetNextRange(off + P, sz, P, up)

\* a getNextRange that yields nothing when the part size is not positive
DownloaderGetNextRangeValidating(off, sz, P) ==
    IF off >= sz \/ P <= 0 THEN [r |-> None, offset |-> off, spin |-> FALSE]
    ELSE [r |-> Some(Range(off, RangeLimit(off, sz, P))),
          offset |-> off + P, spin |-> FALSE]

\* a getNextRange that moves the cursor by one byte
DownloaderGetNextRangeCreeping(off, sz, P) ==
    IF off >= sz THEN [r |-> None, offset |-> off, spin |-> FALSE]
    ELSE [r |-> Some(Range(off, RangeLimit(off, sz, P))),
          offset |-> off + 1, spin |-> FALSE]

\* Downloader.getNextRange
DownloaderGetNextRange(off, sz, P) ==
    IF off >= sz THEN [r |-> None, offset |-> off, spin |-> FALSE]
    ELSE [r |-> Some(Range(off, RangeLimit(off, sz, P))),
          offset |-> off + P, spin |-> FALSE]

GetNextRange ==
    IF mode = "upload" THEN UploaderGetNextRange(offset, size, partSize, uploaded)
    ELSE DownloaderGetNextRange(offset, size, partSize)

\* ---------------------------------------------------------------- Init
\* what the destination path of a download may be before the first run:
\* nothing, a file, or a directory
NoPath == [exists |-> FALSE, dir |-> FALSE, content |-> << >>, by |-> 0, writes |-> {}]
Paths ==
    { NoPath, [exists |-> TRUE, dir |-> TRUE, content |-> << >>, by |-> 0, writes |-> {}] }
    \cup { [exists |-> TRUE, dir |-> FALSE, content |-> c, by |-> 0, writes |-> {}] :
              c \in { << >>, << 1 >> } }

PartSizes == (0 - 1)..MaxPart

Init ==
    /\ mode \in { "upload", "download" }
    /\ partSize \in PartSizes
    /\ jobs \in 0..MaxJobs
    /\ uploadId \in IF mode = "upload" THEN { "", "resumed" } ELSE { "" }
    /\ data = << >>
    /\ dest \in IF mode = "upload" THEN { NoPath } ELSE Paths
    /\ run = 1
    /\ rng = None /\ rangeText = << >> /\ parsed = None
    /\ file = "none"
    /\ size = 0
    /\ offset = 0
    /\ uploaded = {}
    /\ treeHash = None
    /\ pc = IF mode = "upload" THEN "open" ELSE "checkJob"
    /\ more = TRUE
    /\ closed = FALSE
    /\ wk = [w \in Workers |-> [st |-> "none", idx |-> 0]]
    /\ yielded = << >>
    /\ invoked = << >>
    /\ result = << >>
    /\ examined = << >>
    /\ listed = << >>
    /\ declared = << >>
    /\ calls = [op \in Ops |-> 0]
    /\ reqs = {}
    /\ completion = "" /\ location = None
    /\ job = None
    /\ ret = ""

\* a return without the deferred Close
ReturnLeaking(r) ==
    /\ ret' = r
    /\ pc' = "done"
    /\ file' = file

\* return from Upload / Download: a deferred Close runs once the file is open
Return(r) ==
    /\ ret' = r
    /\ pc' = "done"
    /\ file' = IF file = "open" THEN "closed" ELSE file

\* ---------------------------------------------------------------- Upload
\* Uploader.openFile: os.Open, Stat, IsDir
UpOpenFile ==
    /\ mode = "upload" /\ pc = "open"
    /\ \/ /\ Return("open error")
          /\ UNCHANGED << data, size >>
       \/ \* Stat fails or the path is a directory: the handle is closed again
          /\ \E e \in { "stat error", "directories are not supported" } :
                /\ ret' = e /\ pc' = "done" /\ file' = "closed"
          /\ UNCHANGED << data, size >>
       \/ /\ \E d \in Contents : data' = d /\ size' = Len(d)
          /\ file' = "open" /\ pc' = "initiate" /\ ret' = ret
    /\ UNCHANGED << env, job, completion, location, uploadId, dest, offset, uploaded, treeHash, more, pool,
                    listing, calls, reqs >>

\* an initiateUpload whose error Upload does not return
UpInitiateSwallowing ==
    /\ mode = "upload" /\ pc = "initiate"
    /\ IF uploadId # ""
       THEN UNCHANGED << uploadId, calls >>
       ELSE /\ calls' = Called("Initiate")
            /\ uploadId' \in { "", "initiated" }
    /\ pc' = "reconcile"
    /\ UNCHANGED << env, job, completion, location, data, dest, file, size, offset, uploaded, treeHash, more,
                    pool, listing, reqs, ret >>

\* an initiateUpload that asks for a new upload whatever the identifier is
UpInitiateAlways ==
    /\ mode = "upload" /\ pc = "initiate"
    /\ calls' = Called("Initiate")
    /\ \/ /\ Return("initiate error")
          /\ UNCHANGED uploadId
       \/ /\ uploadId' = "initiated"
          /\ pc' = "reconcile"
          /\ UNCHANGED << ret, file >>
    /\ UNCHANGED << env, job, completion, location, data, dest, size, offset, uploaded, treeHash, more, pool,
                    listing, reqs >>

\* Uploader.initiateUpload
UpInitiate ==
    /\ mode = "upload" /\ pc = "initiate"
    /\ IF uploadId # ""
       THEN /\ pc' = "reconcile"
            /\ UNCHANGED << uploadId, calls, ret, file >>
       ELSE /\ calls' = Called("Initiate")
            /\ \/ /\ Return("initiate error")
                  /\ UNCHANGED uploadId
               \/ /\ uploadId' = "initiated"
                  /\ pc' = "reconcile"
                  /\ UNCHANGED << ret, file >>
    /\ UNCHANGED << env, job, completion, location, data, dest, size, offset, uploaded, treeHash, more, pool,
                    listing, reqs >>

\* a range text (a sequence of characters) as the string %v prints
RECURSIVE Sprint(_)
Sprint(t) == IF Len(t) = 0 THEN "" ELSE t[1] \o Sprint(Tail(t))
\* the two errors of checkPart that name the part's range text
InvalidRange(t) == "part (" \o Sprint(t) \o ") range is invalid"
HashingFailed(t) == "could not compute hashes of part (" \o Sprint(t) \o ")"

\* a checkPart that hashes the listed range before it looks at its offset
CheckPartHashFirst(part, sz, d, up) ==
    LET partRange == RangeFromString(part.RangeInBytes) IN
    IF partRange = None
    THEN [err |-> InvalidRange(part.RangeInBytes), ok |-> FALSE, uploaded |-> up]
    ELSE LET th == ComputeTreeHash(
                       SectionBytes(d, partRange[1].Offset, partRange[1].Limit))
         IN  IF th = None
             THEN [err |-> HashingFailed(part.RangeInBytes), ok |-> FALSE,
                   uploaded |-> up]
             ELSE IF partRange[1].Offset >= sz
             THEN [err |-> "file size mismatch", ok |-> FALSE, uploaded |-> up]
             ELSE IF th[1] = part.SHA256TreeHash
             THEN [err |-> "", ok |-> TRUE,
                   uploaded |-> up \cup { partRange[1].Offset }]
             ELSE [err |-> "", ok |-> FALSE, uploaded |-> up]

\* a checkPart that confirms a listed part without comparing the hashes
CheckPartTrusting(part, sz, d, up) ==
    LET partRange == RangeFromString(part.RangeInBytes) IN
    IF partRange = None
    THEN [err |-> InvalidRange(part.RangeInBytes), ok |-> FALSE, uploaded |-> up]
    ELSE IF partRange[1].Offset >= sz
    THEN [err |-> "file size mismatch", ok |-> FALSE, uploaded |-> up]
    ELSE [err |-> "", ok |-> TRUE, uploaded |-> up \cup { partRange[1].Offset }]

\* Uploader.checkPart on one listed part: the error ("" = nil), whether the
\* hashes were equal, and the confirmed set after the call
CheckPart(part, sz, d, up) ==
    LET partRange == RangeFromString(part.RangeInBytes) IN
    IF partRange = None
    THEN [err |-> InvalidRange(part.RangeInBytes), ok |-> FALSE, uploaded |-> up]
    ELSE IF partRange[1].Offset >= sz
    THEN [err |-> "file size mismatch", ok |-> FALSE, uploaded |-> up]
    ELSE LET th == ComputeTreeHash(
                       SectionBytes(d, partRange[1].Offset, partRange[1].Limit))
         IN  IF th = None
             THEN [err |-> HashingFailed(part.RangeInBytes), ok |-> FALSE,
                   uploaded |-> up]
             ELSE IF th[1] = part.SHA256TreeHash
             THEN [err |-> "", ok |-> TRUE,
                   uploaded |-> up \cup { partRange[1].Offset }]
             ELSE [err |-> "", ok |-> FALSE, uploaded |-> up]

\* the loop over result.Parts of one page: stops at the first error; seen is
\* the parts checkPart was called on so far
RECURSIVE CheckParts(_, _, _, _, _)
CheckParts(parts, sz, d, up, seen) ==
    IF Len(parts) = 0 THEN [err |-> "", uploaded |-> up, examined |-> seen]
    ELSE LET c == CheckPart(parts[1], sz, d, up) IN
         IF c.err # ""
         THEN [err |-> c.err, uploaded |-> c.uploaded, examined |-> Append(seen, parts[1])]
         ELSE CheckParts(Tail(parts), sz, d, c.uploaded, Append(seen, parts[1]))

\* a page check without the part size comparison
CheckPageUnsized(page, P, sz, d, up, seen) ==
    CheckParts(page.Parts, sz, d, up, seen)

\* one page of the listing: the part size mismatch check, then its parts
CheckPage(page, P, sz, d, up, seen) ==
    IF page.PartSizeInBytes # P
    THEN [err |-> "part size mismatch", uploaded |-> up, examined |-> seen]
    ELSE CheckParts(page.Parts, sz, d, up, seen)

\* What the remote service may list: any range text (aligned or not, inside
\* the file or not), malformed texts, with the hash of the local bytes or a
\* different one; the part size it declares is a size (>= 1).
BadTexts == { << "x", "-", "0" >>, << "1", "-", "0" >>, << "0", "-", "1", "-", "2" >> }
RangeTexts == { RangeString(Range(o, l)) : o \in 0..MaxSize, l \in 1..MaxPart }
ListedParts(d) ==
    { [RangeInBytes |-> t, SHA256TreeHash |-> StaleHash] : t \in RangeTexts \cup BadTexts }
    \cup
    { [RangeInBytes |-> RangeString(r),
       SHA256TreeHash |-> ComputeTreeHash(SectionBytes(d, r.Offset, r.Limit))[1]] :
        r \in { x \in { Range(o, l) : o \in 0..MaxSize, l \in 1..MaxPart } :
                  ComputeTreeHash(SectionBytes(d, x.Offset, x.Limit)) # None } }
DeclaredSizes(P) == { ps \in { P, P + 1 } : ps >= 1 }
ListedPages(d, P) ==
    { [PartSizeInBytes |-> ps, Parts |-> ps2] :
        ps \in DeclaredSizes(P), ps2 \in SeqsOf(ListedParts(d), MaxParts) }

\* a checkUploadedParts that does not look at pager.Err() after the loop
UpListPageSwallowing ==
    /\ mode = "upload" /\ pc = "reconcile" /\ more
    /\ calls' = Called("ListParts")
    /\ \/ /\ more' = FALSE
          /\ UNCHANGED << uploaded, examined, listed, declared, pc, ret, file >>
       \/ \E page \in ListedPages(data, partSize) :
             LET c == CheckPage(page, partSize, size, data, uploaded, examined) IN
             /\ declared' = Append(declared, page.PartSizeInBytes)
             /\ uploaded' = c.uploaded
             /\ examined' = c.examined
             /\ listed' = listed \o page.Parts
             /\ IF c.err # ""
                THEN Return(c.err) /\ UNCHANGED more
                ELSE /\ more' \in IF calls["ListParts"] + 1 < MaxPages
                                  THEN BOOLEAN ELSE { FALSE }
                     /\ UNCHANGED << pc, ret, file >>
    /\ UNCHANGED << env, job, completion, location, uploadId, data, dest, size, offset, treeHash, pool, reqs >>

\* Uploader.checkUploadedParts, one turn of the pager loop: pager.Next fetches
\* a page (or fails), the page is checked
UpListPage ==
    /\ mode = "upload" /\ pc = "reconcile" /\ more
    /\ calls' = Called("ListParts")
    /\ \/ /\ Return("list error")
          /\ UNCHANGED << uploaded, examined, listed, declared, more >>
       \/ \E page \in ListedPages(data, partSize) :
             LET c == CheckPage(page, partSize, size, data, uploaded, examined) IN
             /\ declared' = Append(declared, page.PartSizeInBytes)
             /\ uploaded' = c.uploaded
             /\ examined' = c.examined
             /\ listed' = listed \o page.Parts
             /\ IF c.err # ""
                THEN Return(c.err) /\ UNCHANGED more
                ELSE /\ more' \in IF calls["ListParts"] + 1 < MaxPages
                                  THEN BOOLEAN ELSE { FALSE }
                     /\ UNCHANGED << pc, ret, file >>
    /\ UNCHANGED << env, job, completion, location, uploadId, data, dest, size, offset, treeHash, pool, reqs >>

\* checkUploadedParts returns nil after the last page; Upload goes on
UpListDone ==
    /\ mode = "upload" /\ pc = "reconcile" /\ ~more
    /\ pc' = "spawn"
    /\ UNCHANGED << env, job, completion, location, uploadId, data, dest, file, size, offset, uploaded,
                    treeHash, more, pool, listing, calls, reqs, ret >>

\* ---------------------------------------------------------------- dispatcher
Text(chars, r, tail) == chars \o RangeString(r) \o tail
BytesSp == << "b", "y", "t", "e", "s", " " >>
BytesEq == << "b", "y", "t", "e", "s", "=" >>
SlashStar == << "/", "*" >>

Req(op, idx, text, sum, body) ==
    [op |-> op, idx |-> idx, text |-> text, sum |-> sum, body |-> body]

\* a dispatcher that starts one worker when the degree is not positive
SpawnAtLeastOne ==
    /\ pc = "spawn"
    /\ wk' = [w \in Workers |->
                 IF w <= jobs \/ w = 1 THEN [st |-> "idle", idx |-> 0] ELSE wk[w]]
    /\ pc' = "next"
    /\ UNCHANGED << env, job, completion, location, uploadId, data, dest, file, size, offset, uploaded,
                    treeHash, more, closed, yielded, invoked, result, listing,
                    calls, reqs, ret >>

\* multipartUpload / multipartDownload: wg.Add(jobs) and the go statements
Spawn ==
    /\ pc = "spawn"
    /\ wk' = [w \in Workers |->
                 IF w <= jobs THEN [st |-> "idle", idx |-> 0] ELSE wk[w]]
    /\ pc' = "next"
    /\ UNCHANGED << env, job, completion, location, uploadId, data, dest, file, size, offset, uploaded,
                    treeHash, more, closed, yielded, invoked, result, listing,
                    calls, reqs, ret >>

\* the producer loop: p := getNextRange(); nil leaves the loop, otherwise the
\* range is offered on the channel
Produce ==
    /\ pc = "next" /\ (partSize >= 1 \/ Len(yielded) < MaxYield)
    /\ LET g == GetNextRange IN
       /\ offset' = g.offset
       /\ IF g.spin THEN pc' = "spin" /\ UNCHANGED << yielded, invoked, result >>
          ELSE IF g.r = None
          THEN pc' = "close" /\ UNCHANGED << yielded, invoked, result >>
          ELSE /\ pc' = "send"
               /\ yielded' = Append(yielded, g.r[1])
               /\ invoked' = Append(invoked, 0)
               /\ result' = Append(result, "queued")
    /\ UNCHANGED << env, job, completion, location, uploadId, data, dest, file, size, uploaded, treeHash,
                    more, closed, wk, listing, calls, reqs, ret >>

\* a receive that leaves the range on offer to the other workers
ReceiveUnconsumed(w) ==
    /\ pc = "send" /\ wk[w].st = "idle" /\ ~closed
    /\ wk' = [wk EXCEPT ![w] = [st |-> "busy", idx |-> Len(yielded)]]
    /\ invoked' = [invoked EXCEPT ![Len(yielded)] = @ + 1]
    /\ result' = [result EXCEPT ![Len(yielded)] = "running"]
    /\ pc' \in { "send", "next" }
    /\ UNCHANGED << env, job, completion, location, uploadId, data, dest, file, size, offset, uploaded,
                    treeHash, more, closed, yielded, listing, calls, reqs, ret >>

\* parts <- p meets a worker's receive: the worker starts the per-range function
Receive(w) ==
    /\ pc = "send" /\ wk[w].st = "idle" /\ ~closed
    /\ wk' = [wk EXCEPT ![w] = [st |-> "busy", idx |-> Len(yielded)]]
    /\ invoked' = [invoked EXCEPT ![Len(yielded)] = @ + 1]
    /\ result' = [result EXCEPT ![Len(yielded)] = "running"]
    /\ pc' = "next"
    /\ UNCHANGED << env, job, completion, location, uploadId, data, dest, file, size, offset, uploaded,
                    treeHash, more, closed, yielded, listing, calls, reqs, ret >>

\* what the worker logs of a per-range function that returned err: "finish"
\* or the error, kept per range (the errors of the transport, of reading the
\* body and of hashing are kept as "error")
Outcome(err) ==
    IF err \in { "ok", "size mismatch", "hash mismatch", "write error" } THEN err
    ELSE "error"

\* a worker that returns from its goroutine on an error
WorkerAfterReturning(err) ==
    [st |-> IF err = "ok" THEN "idle" ELSE "exited", idx |-> 0]

\* the worker loop after the per-range function returned err ("ok" = nil):
\* the error is logged and the worker receives again
WorkerAfter(err) == [st |-> "idle", idx |-> 0]

\* an uploadPart that tags the part with the hash of the file from the range on
UploadPartRequestHashingOn(idx, r, d) ==
    LET body == SectionBytes(d, r.Offset, r.Limit)
        th == ComputeTreeHash(SectionBytes(d, r.Offset, Len(d)))
    IN  IF th = None THEN None
        ELSE Some(Req("UploadPart", idx, Text(BytesSp, r, SlashStar), th[1], body))

\* Uploader.uploadPart on range r of a file holding d: the request it sends
\* (None when the hash cannot be computed)
UploadPartRequest(idx, r, d) ==
    LET body == SectionBytes(d, r.Offset, r.Limit)
        th == ComputeTreeHash(body)
    IN  IF th = None THEN None
        ELSE Some(Req("UploadPart", idx, Text(BytesSp, r, SlashStar), th[1], body))

\* a worker that records the offset of the part it uploaded as confirmed
FinishUploadConfirming(w) ==
    /\ mode = "upload" /\ wk[w].st = "busy"
    /\ LET idx == wk[w].idx
           rq == UploadPartRequest(idx, yielded[idx], data)
       IN  \E err \in IF rq = None THEN { "could not compute hashes" }
                      ELSE { "ok", "upload error" } :
              /\ reqs' = IF rq = None THEN reqs ELSE reqs \cup { rq[1] }
              /\ calls' = IF rq = None THEN calls ELSE Called("UploadPart")
              /\ result' = [result EXCEPT ![idx] = Outcome(err)]
              /\ wk' = [wk EXCEPT ![w] = WorkerAfter(err)]
              /\ uploaded' = IF err = "ok" THEN uploaded \cup { yielded[idx].Offset }
                             ELSE uploaded
    /\ UNCHANGED << env, job, completion, location, uploadId, data, dest, file, size,
                    offset, treeHash, pc, more, closed, yielded, invoked, listing, ret >>

\* a worker of multipartUpload finishes uploadPart
FinishUpload(w) ==
    /\ mode = "upload" /\ wk[w].st = "busy"
    /\ LET idx == wk[w].idx
           rq == UploadPartRequest(idx, yielded[idx], data)
       IN  \E err \in IF rq = None THEN { "could not compute hashes" }
                      ELSE { "ok", "upload error" } :
              /\ reqs' = IF rq = None THEN reqs ELSE reqs \cup { rq[1] }
              /\ calls' = IF rq = None THEN calls ELSE Called("UploadPart")
              /\ result' = [result EXCEPT ![idx] = Outcome(err)]
              /\ wk' = [wk EXCEPT ![w] = WorkerAfter(err)]
    /\ UNCHANGED << env, job, completion, location, uploadId, data, dest, file, size, offset, uploaded,
                    treeHash, pc, more, closed, yielded, invoked, listing, ret >>

\* what the remote service may answer to a range fetch of r
Flip(b) == IF Len(b) = 0 THEN b ELSE << 1 - b[1] >> \o Tail(b)
Responses(r, d) ==
    LET exact == SectionBytes(d, r.Offset, r.Limit) IN
    { [err |-> e, body |-> << >>, sum |-> None] : e \in { "transport error", "read error" } }
    \cup
    { [err |-> "", body |-> b, sum |-> c] :
        b \in { exact, Flip(exact), Append(exact, 0) }
              \cup (IF Len(exact) = 0 THEN {} ELSE { SubSeq(exact, 1, Len(exact) - 1) }),
        c \in { None, Some(StaleHash) }
              \cup (IF ComputeTreeHash(exact) = None THEN {}
                    ELSE { ComputeTreeHash(exact) }) }

\* a downloadPart that compares the hashes before the lengths
DownloadPartCheckHashFirst(resp, r) ==
    IF resp.err # "" THEN resp.err
    ELSE IF resp.sum # None /\ ComputeTreeHash(resp.body) = None
         THEN "could not compute hash"
    ELSE IF resp.sum # None /\ resp.sum # ComputeTreeHash(resp.body)
         THEN "hash mismatch"
    ELSE IF Len(resp.body) # r.Limit THEN "size mismatch"
    ELSE ""

\* a downloadPart that does not look at the checksum of the response
DownloadPartCheckUnverified(resp, r) ==
    IF resp.err # "" THEN resp.err
    ELSE IF Len(resp.body) # r.Limit THEN "size mismatch"
    ELSE ""

\* Downloader.downloadPart after the response resp: the error it returns before
\* the write ("" = it goes on to write the body)
DownloadPartCheck(resp, r) ==
    IF resp.err # "" THEN resp.err
    ELSE IF Len(resp.body) # r.Limit THEN "size mismatch"
    ELSE IF resp.sum # None /\ ComputeTreeHash(resp.body) = None
         THEN "could not compute hash"
    ELSE IF resp.sum # None /\ resp.sum # ComputeTreeHash(resp.body)
         THEN "hash mismatch"
    ELSE ""

\* the record of a WriteAt that wrote n bytes at off for the range idx
Written(idx, off, n) == [idx |-> idx, off |-> off, n |-> n]

\* (*os.File).WriteAt(body, off) on a file holding c
WriteAt(c, body, off) ==
    [i \in 1..Len(c) |->
        IF i > off /\ i <= off + Len(body) THEN body[i - off] ELSE c[i]]

\* a downloadPart that writes the body it received before it checks it
FinishDownloadWritingFirst(w) ==
    /\ mode = "download" /\ wk[w].st = "busy"
    /\ LET idx == wk[w].idx
           r == yielded[idx]
       IN  /\ calls' = Called("GetJobOutput")
           /\ reqs' = reqs \cup { Req("GetJobOutput", idx, Text(BytesEq, r, << >>), << >>, << >>) }
           /\ \E resp \in Responses(r, data) :
                LET e == DownloadPartCheck(resp, r) IN
                \/ /\ e # ""
                   /\ result' = [result EXCEPT ![idx] = Outcome(e)]
                   /\ wk' = [wk EXCEPT ![w] = WorkerAfter(e)]
                   /\ dest' = IF resp.err # "" THEN dest
                              ELSE [dest EXCEPT
                                      !.content = WriteAt(@, resp.body, r.Offset),
                                      !.writes = @ \cup { Written(idx, r.Offset, Len(resp.body)) }]
                \/ /\ e = ""
                   /\ \/ /\ dest' = [dest EXCEPT
                                     !.content = WriteAt(@, resp.body, r.Offset),
                                     !.writes = @ \cup { Written(idx, r.Offset, Len(resp.body)) }]
                         /\ result' = [result EXCEPT ![idx] = "ok"]
                         /\ wk' = [wk EXCEPT ![w] = WorkerAfter("ok")]
                      \/ \* the write fails after n < len(body) bytes
                         /\ \E n \in 0..(Len(resp.body) - 1) :
                               dest' = [dest EXCEPT
                                   !.content = WriteAt(@, SubSeq(resp.body, 1, n), r.Offset),
                                   !.writes = @ \cup { Written(idx, r.Offset, n) }]
                         /\ result' = [result EXCEPT ![idx] = Outcome("write error")]
                         /\ wk' = [wk EXCEPT ![w] = WorkerAfter("write error")]
    /\ UNCHANGED << env, job, completion, location, uploadId, data, file, size, offset, uploaded, treeHash,
                    pc, more, closed, yielded, invoked, listing, ret >>

\* a worker of multipartDownload finishes downloadPart
FinishDownload(w) ==
    /\ mode = "download" /\ wk[w].st = "busy"
    /\ LET idx == wk[w].idx
           r == yielded[idx]
       IN  /\ calls' = Called("GetJobOutput")
           /\ reqs' = reqs \cup { Req("GetJobOutput", idx, Text(BytesEq, r, << >>), << >>, << >>) }
           /\ \E resp \in Responses(r, data) :
                LET e == DownloadPartCheck(resp, r) IN
                \/ /\ e # ""
                   /\ result' = [result EXCEPT ![idx] = Outcome(e)]
                   /\ wk' = [wk EXCEPT ![w] = WorkerAfter(e)]
                   /\ UNCHANGED dest
                \/ /\ e = ""
                   /\ \/ /\ dest' = [dest EXCEPT
                                     !.content = WriteAt(@, resp.body, r.Offset),
                                     !.writes = @ \cup { Written(idx, r.Offset, Len(resp.body)) }]
                         /\ result' = [result EXCEPT ![idx] = "ok"]
                         /\ wk' = [wk EXCEPT ![w] = WorkerAfter("ok")]
                      \/ \* the write fails after n < len(body) bytes
                         /\ \E n \in 0..(Len(resp.body) - 1) :
                               dest' = [dest EXCEPT
                                   !.content = WriteAt(@, SubSeq(resp.body, 1, n), r.Offset),
                                   !.writes = @ \cup { Written(idx, r.Offset, n) }]
                         /\ result' = [result EXCEPT ![idx] = Outcome("write error")]
                         /\ wk' = [wk EXCEPT ![w] = WorkerAfter("write error")]
    /\ UNCHANGED << env, job, completion, location, uploadId, data, file, size, offset, uploaded, treeHash,
                    pc, more, closed, yielded, invoked, listing, ret >>

\* a producer that does not close the channel
CloseOmitted ==
    /\ pc = "close"
    /\ pc' = "wait"
    /\ UNCHANGED << env, job, completion, location, uploadId, data, dest, file, size, offset, uploaded,
                    treeHash, more, closed, wk, yielded, invoked, result, listing,
                    calls, reqs, ret >>

\* close(parts) after the producer loop
Close ==
    /\ pc = "close"
    /\ closed' = TRUE
    /\ pc' = "wait"
    /\ UNCHANGED << env, job, completion, location, uploadId, data, dest, file, size, offset, uploaded,
                    treeHash, more, wk, yielded, invoked, result, listing, calls,
                    reqs, ret >>

\* a worker's range loop ends on the closed channel: wg.Done
Exit(w) ==
    /\ wk[w].st = "idle" /\ closed
    /\ wk' = [wk EXCEPT ![w] = [st |-> "exited", idx |-> 0]]
    /\ UNCHANGED << env, job, completion, location, uploadId, data, dest, file, size, offset, uploaded,
                    treeHash, pc, more, closed, yielded, invoked, result, listing,
                    calls, reqs, ret >>

\* a dispatcher that does not wait for its workers
JoinedUnwaited == TRUE

\* wg.Wait returns when every spawned worker is done
Joined == \A w \in Workers : wk[w].st \in { "none", "exited" }

Wait ==
    /\ pc = "wait" /\ Joined
    /\ pc' = IF mode = "upload" THEN "complete" ELSE "checkTreeHash"
    /\ UNCHANGED << env, job, completion, location, uploadId, data, dest, file, size, offset, uploaded,
                    treeHash, more, pool, listing, calls, reqs, ret >>

\* an Upload that reports a failed part upload after the completion step
UpCompleteStrict ==
    /\ mode = "upload" /\ pc = "complete"
    /\ LET th == ComputeTreeHash(data) IN
       IF th = None
       THEN completion' = "could not compute hashes" /\ UNCHANGED << calls, reqs >>
       ELSE /\ calls' = Called("Complete")
            /\ reqs' = reqs \cup { Req("Complete", 0, FormatInt(size), th[1], << >>) }
            /\ completion' \in { "ok", "complete error" }
    /\ location' = IF completion' = "ok" THEN Some("location") ELSE None
    /\ Return(IF \E i \in 1..Len(result) : result[i] = "error"
              THEN "upload error" ELSE completion')
    /\ UNCHANGED << env, job, uploadId, data, dest, size, offset, uploaded, treeHash,
                    more, pool, listing >>

\* a completeUpload that sends the completion call without a hash
UpCompleteUnhashed ==
    /\ mode = "upload" /\ pc = "complete"
    /\ LET th == ComputeTreeHash(data) IN
       /\ calls' = Called("Complete")
       /\ reqs' = reqs \cup { Req("Complete", 0, FormatInt(size),
                                  IF th = None THEN << >> ELSE th[1], << >>) }
       /\ completion' \in { "ok", "complete error" }
    /\ location' = IF completion' = "ok" THEN Some("location") ELSE None
    /\ Return(completion')
    /\ UNCHANGED << env, job, uploadId, data, dest, size, offset, uploaded, treeHash,
                    more, pool, listing >>

\* Uploader.completeUpload and the end of Upload, which returns what
\* completeUpload returned (a successful answer carries the location that
\* Upload logs)
UpComplete ==
    /\ mode = "upload" /\ pc = "complete"
    /\ LET th == ComputeTreeHash(data) IN
       IF th = None
       THEN completion' = "could not compute hashes" /\ UNCHANGED << calls, reqs >>
       ELSE /\ calls' = Called("Complete")
            /\ reqs' = reqs \cup { Req("Complete", 0, FormatInt(size), th[1], << >>) }
            /\ completion' \in { "ok", "complete error" }
    /\ location' = IF completion' = "ok" THEN Some("location") ELSE None
    /\ Return(completion')
    /\ UNCHANGED << env, job, uploadId, data, dest, size, offset, uploaded, treeHash,
                    more, pool, listing >>

\* ---------------------------------------------------------------- Download
\* what DescribeJob may answer for an archive holding d (None = field absent)
JobOutputs(d) ==
    { [err |-> "", Action |-> a, StatusCode |-> st, StatusMessage |-> m,
       ArchiveSizeInBytes |-> sz, SHA256TreeHash |-> h] :
        a \in { "ArchiveRetrieval", "InventoryRetrieval" },
        st \in { "Succeeded", "InProgress", "Failed", "Unknown" },
        m \in { None, Some("message") },
        sz \in { None, Some(Len(d)) },
        h \in { None, Some(StaleHash) }
              \cup (IF ComputeTreeHash(d) = None THEN {} ELSE { ComputeTreeHash(d) }) }
    \cup
    { [err |-> "describe error", Action |-> "", StatusCode |-> "",
       StatusMessage |-> None, ArchiveSizeInBytes |-> None, SHA256TreeHash |-> None] }

\* Downloader.checkJob on the answer j: the error it returns ("" = nil);
\* "panic" is a nil pointer dereference
CheckJob(j) ==
    IF j.err # "" THEN j.err
    ELSE IF j.Action # "ArchiveRetrieval" THEN j.Action \o " action is not supported"
    ELSE IF j.StatusCode # "Succeeded"
         THEN IF j.StatusCode = "InProgress" THEN "the job is not succeeded yet"
              ELSE IF j.StatusCode = "Failed"
                   THEN IF j.StatusMessage = None THEN "panic"
                        ELSE "the job is failed: " \o j.StatusMessage[1]
              ELSE "job status is unexpected: " \o j.StatusCode
    ELSE IF j.SHA256TreeHash = None THEN "the retrieved range must be tree-hash aligned"
    ELSE IF j.ArchiveSizeInBytes = None THEN "panic"
    ELSE ""

\* a checkJob that records the size and the hash before it validates the job
DnCheckJobStoringFirst ==
    /\ mode = "download" /\ pc = "checkJob"
    /\ calls' = Called("DescribeJob")
    /\ \E d \in Contents : \E j \in JobOutputs(d) :
          /\ run > 1 => d = data   \* the same job holds the same archive
          /\ data' = d
          /\ job' = Some(j)
          /\ IF CheckJob(j) # ""
             THEN /\ Return(CheckJob(j))
                  /\ size' = IF j.ArchiveSizeInBytes = None THEN size
                             ELSE j.ArchiveSizeInBytes[1]
                  /\ treeHash' = j.SHA256TreeHash
             ELSE /\ size' = j.ArchiveSizeInBytes[1]
                  /\ treeHash' = j.SHA256TreeHash
                  /\ pc' = "openFile"
                  /\ UNCHANGED << ret, file >>
    /\ UNCHANGED << env, completion, location, uploadId, dest, offset, uploaded, more, pool,
                    listing, reqs >>

\* Downloader.checkJob as a step of Download: DescribeJob, then the checks
DnCheckJob ==
    /\ mode = "download" /\ pc = "checkJob"
    /\ calls' = Called("DescribeJob")
    /\ \E d \in Contents : \E j \in JobOutputs(d) :
          /\ run > 1 => d = data   \* the same job holds the same archive
          /\ data' = d
          /\ job' = Some(j)
          /\ IF CheckJob(j) # ""
             THEN Return(CheckJob(j)) /\ UNCHANGED << size, treeHash >>
             ELSE /\ size' = j.ArchiveSizeInBytes[1]
                  /\ treeHash' = j.SHA256TreeHash
                  /\ pc' = "openFile"
                  /\ UNCHANGED << ret, file >>
    /\ UNCHANGED << env, completion, location, uploadId, dest, offset, uploaded, more, pool,
                    listing, reqs >>

\* an openFile without O_EXCL, with O_TRUNC
DnOpenFileOverwriting ==
    /\ mode = "download" /\ pc = "openFile"
    /\ \/ Return("open error") /\ UNCHANGED dest
       \/ /\ dest' = [exists |-> TRUE, dir |-> FALSE, content |-> << >>, by |-> run, writes |-> {}]
          /\ file' = "open"
          /\ pc' = "truncate"
          /\ ret' = ret
    /\ UNCHANGED << env, job, completion, location, uploadId, data, size, offset, uploaded, treeHash, more,
                    pool, listing, calls, reqs >>

\* an openFile without O_EXCL: a path that exists is opened as it is
DnOpenFileReopening ==
    /\ mode = "download" /\ pc = "openFile"
    /\ \/ Return("open error") /\ UNCHANGED dest
       \/ /\ dest' = [dest EXCEPT !.exists = TRUE]
          /\ file' = "open"
          /\ pc' = "truncate"
          /\ ret' = ret
    /\ UNCHANGED << env, job, completion, location, uploadId, data, size, offset, uploaded, treeHash, more,
                    pool, listing, calls, reqs >>

\* Downloader.openFile: O_RDWR|O_CREATE|O_EXCL
DnOpenFile ==
    /\ mode = "download" /\ pc = "openFile"
    /\ \/ \* the path exists already, as a file or as a directory
          /\ dest.exists
          /\ Return("file exists") /\ UNCHANGED dest
       \/ \* the path cannot be created
          /\ ~dest.exists
          /\ Return("open error") /\ UNCHANGED dest
       \/ /\ ~dest.exists
          /\ dest' = [exists |-> TRUE, dir |-> FALSE, content |-> << >>, by |-> run, writes |-> {}]
          /\ file' = "open"
          /\ pc' = "truncate"
          /\ ret' = ret
    /\ UNCHANGED << env, job, completion, location, uploadId, data, size, offset, uploaded, treeHash, more,
                    pool, listing, calls, reqs >>

RECURSIVE Zeros(_)
Zeros(n) == IF n <= 0 THEN << >> ELSE Append(Zeros(n - 1), 0)

\* os.Truncate(d.input.FileName, d.size)
DnTruncate ==
    /\ mode = "download" /\ pc = "truncate"
    /\ \/ Return("truncate error") /\ UNCHANGED dest
       \/ /\ dest' = [dest EXCEPT !.content = Zeros(size)]
          /\ pc' = "spawn"
          /\ UNCHANGED << ret, file >>
    /\ UNCHANGED << env, job, completion, location, uploadId, data, size, offset, uploaded, treeHash, more,
                    pool, listing, calls, reqs >>

\* a checkTreeHash that does not compare the two hashes
CheckTreeHashTrusting(c, expected) ==
    IF ComputeTreeHash(c) = None THEN "could not compute hash" ELSE "ok"

\* a checkTreeHash that accepts a file it cannot hash
CheckTreeHashAllowingEmpty(c, expected) ==
    IF ComputeTreeHash(c) = None THEN "ok"
    ELSE IF ComputeTreeHash(c) # expected THEN "hash mismatch"
    ELSE "ok"

\* Downloader.checkTreeHash and the end of Download
CheckTreeHash(c, expected) ==
    IF ComputeTreeHash(c) = None THEN "could not compute hash"
    ELSE IF ComputeTreeHash(c) # expected THEN "hash mismatch"
    ELSE "ok"

\* a Download that returns without the whole-file verification
DnCheckTreeHashSkipped ==
    /\ mode = "download" /\ pc = "checkTreeHash"
    /\ Return("ok")
    /\ UNCHANGED << env, job, completion, location, uploadId, data, dest, size, offset, uploaded,
                    treeHash, more, pool, listing, calls, reqs >>

DnCheckTreeHash ==
    /\ mode = "download" /\ pc = "checkTreeHash"
    /\ Return(CheckTreeHash(dest.content, treeHash))
    /\ UNCHANGED << env, job, completion, location, uploadId, data, dest, size, offset, uploaded, treeHash,
                    more, pool, listing, calls, reqs >>

\* Download is run again for the same job and destination, after the earlier
\* run returned or was interrupted: Download has a value receiver and every
\* run starts from a Downloader as New made it; the destination path is kept
Rerun ==
    /\ mode = "download" /\ run < MaxRuns /\ pc # "checkJob"
    /\ run' = run + 1
    /\ pc' = "checkJob" /\ ret' = "" /\ job' = None
    /\ size' = 0 /\ offset' = 0 /\ treeHash' = None
    /\ file' = "none"
    /\ closed' = FALSE
    /\ wk' = [w \in Workers |-> [st |-> "none", idx |-> 0]]
    /\ yielded' = << >> /\ invoked' = << >> /\ result' = << >>
    /\ calls' = [op \in Ops |-> 0] /\ reqs' = {}
    /\ UNCHANGED << mode, partSize, jobs, rng, rangeText, parsed, completion, location, uploadId, data,
                    dest, uploaded, more, listing >>

\* ---------------------------------------------------------------- Next
Next ==
    \/ UpOpenFile
    \/ UpInitiate
    \/ UpListPage
    \/ UpListDone
    \/ DnCheckJob
    \/ DnOpenFile
    \/ DnTruncate
    \/ Spawn
    \/ Produce
    \/ \E w \in Workers : Receive(w)
    \/ \E w \in Workers : FinishUpload(w)
    \/ \E w \in Workers : FinishDownload(w)
    \/ Close
    \/ \E w \in Workers : Exit(w)
    \/ Wait
    \/ UpComplete
    \/ DnCheckTreeHash
    \/ Rerun

Spec == Init /\ [][Next]_vars

\* ---------------------------------------------------------------- dispatcher alone
\* The states in which Upload calls multipartUpload (after a reconciliation
\* that confirmed the offsets up, each by a one-byte part on a page of its
\* own) and Download calls multipartDownload (after checkJob, openFile and
\* Truncate).
RECURSIVE Ascending(_)
Ascending(S) ==
    IF S = {} THEN << >>
    ELSE LET m == CHOOSE x \in S : \A y \in S : x <= y
         IN  << m >> \o Ascending(S \ { m })

ConfirmingParts(offs, d) ==
    IF Len(offs) = 0 THEN << >> ELSE
    [i \in 1..Len(offs) |->
        [RangeInBytes |-> RangeString(Range(offs[i], 1)),
         SHA256TreeHash |-> ComputeTreeHash(SectionBytes(d, offs[i], 1))[1]]]

DispatchInit ==
    /\ mode \in { "upload", "download" }
    /\ partSize \in IF mode = "upload" THEN 1..MaxPart ELSE PartSizes
    /\ jobs \in 0..MaxJobs
    /\ data \in Contents
    /\ run = 1
    /\ rng = None /\ rangeText = << >> /\ parsed = None
    /\ size = Len(data)
    /\ offset = 0
    /\ file = "open"
    /\ pc = "spawn"
    /\ closed = FALSE
    /\ wk = [w \in Workers |-> [st |-> "none", idx |-> 0]]
    /\ yielded = << >> /\ invoked = << >> /\ result = << >>
    /\ reqs = {}
    /\ completion = "" /\ location = None
    /\ ret = ""
    /\ IF mode = "upload"
       THEN /\ uploaded \in { u \in SUBSET (0..(size - 1)) : Cardinality(u) <= MaxPages }
            /\ examined = ConfirmingParts(Ascending(uploaded), data)
            /\ listed = examined
            /\ declared = [i \in 1..(IF uploaded = {} THEN 1 ELSE Cardinality(uploaded))
                             |-> partSize]
            /\ uploadId \in { "resumed", "initiated" }
            /\ calls = [op \in Ops |->
                           CASE op = "Initiate" -> IF uploadId = "initiated" THEN 1 ELSE 0
                             [] op = "ListParts" -> Len(declared)
                             [] OTHER -> 0]
            /\ more = FALSE
            /\ treeHash = None
            /\ dest = NoPath
            /\ job = None
       ELSE /\ uploaded = {}
            /\ examined = << >> /\ listed = << >> /\ declared = << >>
            /\ uploadId = ""
            /\ calls = [op \in Ops |-> IF op = "DescribeJob" THEN 1 ELSE 0]
            /\ more = TRUE
            /\ job \in { Some(j) : j \in { a \in JobOutputs(data) : CheckJob(a) = "" } }
            /\ treeHash = job[1].SHA256TreeHash
            /\ dest = [exists |-> TRUE, dir |-> FALSE, content |-> Zeros(size), by |-> 1, writes |-> {}]

DispatchNext ==
    \/ Spawn
    \/ Produce
    \/ \E w \in Workers : Receive(w)
    \/ \E w \in Workers : FinishUpload(w)
    \/ \E w \in Workers : FinishDownload(w)
    \/ Close
    \/ \E w \in Workers : Exit(w)
    \/ Wait

\* Scheduling: a goroutine that can take a step eventually takes one, and
\* every remote call returns.
DispatchSpec == DispatchInit /\ [][DispatchNext]_vars /\ WF_vars(DispatchNext)

\* ---------------------------------------------------------------- claims
\* the dispatcher (multipartUpload / multipartDownload) has returned
DispatchReturned == closed /\ pc \in { "complete", "checkTreeHash", "done" }
\* the dispatcher is running
Dispatching == pc \in { "next", "send", "close", "wait", "spin" }

Increasing(rs) ==
    \A i \in 1..Len(rs) : \A j \in 1..Len(rs) : i < j => rs[i].Offset < rs[j].Offset

Ceil(s, p) == (s + p - 1) \div p
Covered(rs) == UNION { { b \in 0..(MaxSize + MaxPart) :
                            rs[i].Offset <= b /\ b < rs[i].Offset + rs[i].Limit } :
                       i \in 1..Len(rs) }
Disjoint(rs) ==
    \A i \in 1..Len(rs) : \A j \in 1..Len(rs) :
        i < j => (rs[i].Offset + rs[i].Limit <= rs[j].Offset
                  \/ rs[j].Offset + rs[j].Limit <= rs[i].Offset)
\* the per-range function returned an error / returned
Failures == { "error", "size mismatch", "hash mismatch", "write error" }
Returned == { "ok" } \cup Failures
Busy == { w \in Workers : wk[w].st = "busy" }
AllReturned ==
    /\ \A i \in 1..Len(yielded) : result[i] \in Returned
    /\ \A w \in Workers : wk[w].st \in { "none", "exited" }

\* C1: in every run the cursor never decreases and the offsets of the yielded
\* ranges are strictly increasing in hand-off order (no offset is yielded
\* twice, whatever the workers reported).
C1_CursorAdvances ==
    [][offset' >= offset /\ Increasing(yielded')]_vars

\* C2: for S >= 0, P >= 1, jobs >= 1, a Download dispatch (an Upload dispatch
\* with an empty confirmed set) that has returned yielded exactly ceil(S/P)
\* ranges, the i-th at offset (i-1)*P, pairwise disjoint, covering [0, S)
\* exactly, and ran the per-range function once per range, failed or not.
C2_ExactPartition ==
    (DispatchReturned /\ partSize >= 1 /\ jobs >= 1
        /\ (mode = "download" \/ uploaded = {}))
    => /\ Len(yielded) = Ceil(size, partSize)
       /\ \A i \in 1..Len(yielded) :
             /\ yielded[i].Offset = (i - 1) * partSize
             /\ invoked[i] = 1
             /\ result[i] \in Returned
       /\ Disjoint(yielded)
       /\ Covered(yielded) = 0..(size - 1)

\* C2 witness: size 3 in parts of 2, the ranges [0,2) and [2,3), one failed
C2_Witness ==
    /\ DispatchReturned /\ partSize = 2 /\ size = 3 /\ jobs >= 1
    /\ (mode = "download" \/ uploaded = {})
    /\ yielded = << Range(0, 2), Range(2, 1) >>
    /\ result = << "error", "ok" >>

\* C3: with jobs >= 1, never more than jobs invocations of the per-range
\* function are in progress, two workers never hold the same yielded range, and
\* a yielded range is received (its function started) at most once.
C3_BoundedDistinct ==
    jobs >= 1 =>
       /\ Cardinality(Busy) <= jobs
       /\ \A v \in Busy : \A w \in Busy : v # w => wk[v].idx # wk[w].idx
       /\ \A w \in Busy : wk[w].idx \in 1..Len(yielded) /\ result[wk[w].idx] = "running"
       /\ \A i \in 1..Len(yielded) :
             /\ invoked[i] <= 1
             /\ (result[i] = "running") = (\E w \in Busy : wk[w].idx = i)
             /\ (result[i] = "queued") = (invoked[i] = 0)

\* C3 witness: two workers are running, on two different ranges
C3_Witness ==
    jobs = 2 /\ Cardinality(Busy) = 2 /\ wk[1].idx # wk[2].idx

\* C4: the completion call (Upload) and the whole-file hash (Download) happen
\* only after the join: every yielded range's function has returned and no
\* worker is running.
C4_FinalAfterJoin ==
    (pc \in { "complete", "checkTreeHash" } \/ calls["Complete"] > 0
        \/ (pc = "done" /\ closed))
    => AllReturned /\ closed

\* C4 witness: the final step is about to run after two workers ran ranges
C4_Witness ==
    /\ pc \in { "complete", "checkTreeHash" } /\ jobs = 2 /\ Len(yielded) >= 2
    /\ \E i \in 1..Len(yielded) : result[i] = "error"

\* C5: a failing per-range function stops neither its worker (which goes back
\* to receiving) nor a sibling nor the producer, and is not retried: each
\* yielded range is invoked at most once, and exactly once when the dispatcher
\* has returned.
C5_FailureIsLocal ==
    /\ [](\A i \in 1..Len(yielded) :
             invoked[i] <= 1 /\ (DispatchReturned => invoked[i] = 1))
    /\ [][\A w \in Workers :
             (wk[w].st = "busy" /\ run' = run /\ result'[wk[w].idx] \in Failures)
             => /\ wk'[w].st = "idle"
                /\ \A v \in Workers \ { w } : wk'[v] = wk[v]
                /\ pc' = pc /\ closed' = closed /\ offset' = offset
                /\ yielded' = yielded /\ invoked' = invoked
          ]_vars

\* C5 witness: one worker failed on the first range and went on to run the
\* second and the third
C5_Witness ==
    /\ jobs = 1 /\ Len(yielded) = 3 /\ result = << "error", "error", "ok" >>
    /\ invoked = << 1, 1, 1 >> /\ DispatchReturned

\* C6: with jobs >= 1 and part size >= 1, a dispatcher that started returns:
\* every yielded range is taken, and after close every worker exits.
C6_DispatcherReturns ==
    (pc = "next" /\ jobs >= 1 /\ partSize >= 1) ~> (DispatchReturned /\ AllReturned)

\* C6 witness: the dispatcher returned although one of two workers never
\* received a range, and the only range failed
C6_Witness ==
    /\ DispatchReturned /\ jobs = 2 /\ partSize >= 1 /\ Len(yielded) = 1
    /\ wk[1].st = "exited" /\ wk[2].st = "exited" /\ result = << "error" >>

\* the listed parts checkPart compared, and how the comparison went
PartRange(p) == RangeFromString(p.RangeInBytes)
LocalHash(p) ==
    ComputeTreeHash(SectionBytes(data, PartRange(p)[1].Offset, PartRange(p)[1].Limit))
Comparable(p) ==
    PartRange(p) # None /\ PartRange(p)[1].Offset < size /\ LocalHash(p) # None
Mismatching(p) == Comparable(p) /\ LocalHash(p)[1] # p.SHA256TreeHash
Matching(p) == Comparable(p) /\ LocalHash(p)[1] = p.SHA256TreeHash
CheckPartErrors ==
    { "file size mismatch" }
    \cup { InvalidRange(t) : t \in RangeTexts \cup BadTexts }
    \cup { HashingFailed(t) : t \in RangeTexts \cup BadTexts }
ReconcileErrors == CheckPartErrors \cup { "list error", "part size mismatch" }
OpenErrors == { "open error", "stat error", "directories are not supported" }
\* the range starting at offset o was dispatched: yielded, taken by a worker,
\* and its part upload sent
Dispatched(o) ==
    \E k \in 1..Len(yielded) :
        /\ yielded[k].Offset = o /\ invoked[k] = 1
        /\ \E rq \in reqs : rq.op = "UploadPart" /\ rq.idx = k
\* every part-size-aligned offset below the file size is confirmed (and there
\* is one)
AllConfirmed ==
    /\ uploaded # {} /\ partSize >= 1
    /\ \A k \in 0..MaxSize : k * partSize < size => k * partSize \in uploaded

\* C7: in an Upload run no range starting at a confirmed offset is yielded and
\* no part upload is sent for one; when every aligned offset below the size is
\* confirmed the producer goes straight to close, no part upload is sent, and
\* the run that finished dispatch made the completion call.
C7_ConfirmedNeverDispatched ==
    /\ [](mode = "upload" =>
            /\ \A i \in 1..Len(yielded) : yielded[i].Offset \notin uploaded
            /\ \A rq \in reqs : rq.op = "UploadPart" =>
                  /\ rq.idx \in 1..Len(yielded)
                  /\ rq.text = Text(BytesSp, yielded[rq.idx], SlashStar)
                  /\ \A o \in uploaded : \A l \in 0..MaxPart :
                        rq.text # Text(BytesSp, Range(o, l), SlashStar)
            /\ AllConfirmed =>
                  /\ yielded = << >> /\ calls["UploadPart"] = 0
                  /\ (pc = "done" /\ closed) => calls["Complete"] = 1)
    /\ [][(mode = "upload" /\ AllConfirmed /\ pc = "next") => pc' = "close"]_vars

\* C7 witness: both parts of a file were confirmed, no part upload was sent and
\* the completion call succeeded
C7_Witness ==
    /\ mode = "upload" /\ AllConfirmed /\ Cardinality(uploaded) = 2
    /\ calls["UploadPart"] = 0 /\ calls["Complete"] = 1 /\ ret = "ok"

\* C8 as stated: when the run has ended, every listed part whose hashes
\* differed was no error, its offset is not in the confirmed set, and the range
\* starting at its offset was dispatched.
C8_AsStated ==
    (mode = "upload" /\ pc = "done") =>
       \A i \in 1..Len(examined) : Mismatching(examined[i]) =>
          /\ (i = Len(examined) => ret \notin CheckPartErrors)
          /\ PartRange(examined[i])[1].Offset \notin uploaded
          /\ Dispatched(PartRange(examined[i])[1].Offset)

\* C8, amended: a listed part whose hashes differ is no error, leaves
\* reconciliation running and adds nothing to the confirmed set (which holds
\* exactly the offsets of the listed parts whose hashes were equal); when
\* dispatch has returned, the range starting at its offset was dispatched,
\* provided the offset is a multiple of the part size and no other listed part
\* confirmed it.
C8_MismatchIsReuploaded ==
    /\ [](mode = "upload" =>
            /\ uploaded = { PartRange(examined[i])[1].Offset :
                              i \in { j \in 1..Len(examined) : Matching(examined[j]) } }
            /\ \A i \in 1..Len(examined) : Mismatching(examined[i]) =>
                  LET o == PartRange(examined[i])[1].Offset IN
                  /\ (i = Len(examined) => ret \notin CheckPartErrors)
                  /\ (DispatchReturned /\ o % partSize = 0 /\ o \notin uploaded)
                     => Dispatched(o))
    /\ [][(Len(examined') = Len(examined) + 1
             /\ Mismatching(examined'[Len(examined')]))
           => (pc' = "reconcile" /\ ret' = "" /\ uploaded' = uploaded)]_vars

\* C8 witness: the first listed part differed, reconciliation went on to a
\* second part that was confirmed, and the range of the first was uploaded
C8_Witness ==
    /\ mode = "upload" /\ DispatchReturned /\ Len(examined) = 2
    /\ Mismatching(examined[1]) /\ Matching(examined[2])
    /\ Len(yielded) = 1 /\ yielded[1].Offset = PartRange(examined[1])[1].Offset
    /\ Dispatched(yielded[1].Offset)

\* C9: a fetched page that declares a part size other than the configured one
\* is the last page fetched, Upload returns the part size mismatch error, no
\* part upload and no completion call is made in the run, and the step that
\* fetched the page examined none of its parts.
C9_PartSizeMismatchFails ==
    /\ [](mode = "upload" =>
            \A i \in 1..Len(declared) : declared[i] # partSize =>
               /\ i = Len(declared)
               /\ pc = "done" /\ ret = "part size mismatch"
               /\ yielded = << >>
               /\ calls["UploadPart"] = 0 /\ calls["Complete"] = 0)
    /\ [][(Len(declared') > Len(declared) /\ declared'[Len(declared')] # partSize)
             => (examined' = examined /\ uploaded' = uploaded)]_vars

\* C9 witness: the second page mismatched after the first confirmed a part
C9_Witness ==
    /\ mode = "upload" /\ Len(declared) = 2 /\ declared[2] # partSize
    /\ declared[1] = partSize /\ Len(examined) = 1 /\ uploaded # {}
    /\ ret = "part size mismatch"

\* C10: Upload runs open, initiate-or-resume, reconcile, dispatch, complete in
\* this order; a step is reached only when the steps before it succeeded, the
\* first error ends the run and is what Upload returns, and a failed step
\* leaves the later steps' remote calls unmade.
C10_StepsInOrder ==
    /\ [](mode = "upload" =>
            /\ (ret # "") = (pc = "done")
            /\ (file = "none" \/ ret \in OpenErrors) => \A op \in Ops : calls[op] = 0
            /\ pc = "initiate" => (file = "open" /\ \A op \in Ops : calls[op] = 0)
            /\ (pc = "reconcile" \/ calls["ListParts"] > 0)
                  => (uploadId # "" /\ file # "none" /\ ret \notin OpenErrors)
            /\ (uploadId = "" /\ calls["Initiate"] > 0) => ret = "initiate error"
            /\ ret = "initiate error" =>
                  /\ calls["ListParts"] = 0 /\ calls["UploadPart"] = 0
                  /\ calls["Complete"] = 0 /\ yielded = << >>
            /\ ret \in ReconcileErrors =>
                  /\ calls["UploadPart"] = 0 /\ calls["Complete"] = 0
                  /\ yielded = << >> /\ ~closed
            /\ (Dispatching \/ pc = "spawn" \/ yielded # << >> \/ closed) =>
                  /\ ~more /\ calls["ListParts"] >= 1 /\ uploadId # ""
                  /\ \A i \in 1..Len(declared) : declared[i] = partSize
            /\ (pc = "complete" \/ calls["Complete"] > 0) => DispatchReturned
            /\ calls["Complete"] <= 1 /\ calls["Initiate"] <= 1)
    /\ [][mode = "upload" =>
            /\ ret = ""
            /\ ret' # "" =>
                  /\ pc = "open" => ret' \in OpenErrors
                  /\ pc = "initiate" => ret' = "initiate error"
                  /\ pc = "reconcile" => ret' \in ReconcileErrors
                  /\ pc \in { "open", "initiate", "reconcile", "complete" }
                  /\ yielded' = yielded /\ calls'["UploadPart"] = calls["UploadPart"]
         ]_vars

\* C10 witness: a run went through the five steps: created the upload, listed
\* two pages, uploaded two parts and completed
C10_Witness ==
    /\ mode = "upload" /\ ret = "ok" /\ calls["Initiate"] = 1
    /\ calls["ListParts"] = 2 /\ calls["UploadPart"] = 2 /\ calls["Complete"] = 1

\* C11 as stated: an Upload run that got past open, initiate and reconcile
\* made the completion call exactly once, and returned an error exactly when
\* the completion step did.
C11_AsStated ==
    (mode = "upload" /\ pc = "done"
        /\ ret \notin OpenErrors \cup ReconcileErrors \cup { "initiate error" })
    => (calls["Complete"] = 1 /\ ret = completion)

\* C11, amended: the completion step runs when the dispatcher has returned,
\* whatever the part uploads' outcomes; for a non-empty file it makes the
\* completion call exactly once, for an empty file it fails on the hash without
\* a call; Upload returns what the completion step returned.
C11_ResultIgnoresParts ==
    /\ [](mode = "upload" =>
            /\ (completion # "") = (pc = "done" /\ closed)
            /\ completion = "" => (calls["Complete"] = 0 /\ ret # "ok")
            /\ completion # "" =>
                  /\ ret = completion /\ AllReturned
                  /\ size > 0 => (calls["Complete"] = 1
                                  /\ completion \in { "ok", "complete error" })
                  /\ size = 0 => (calls["Complete"] = 0
                                  /\ completion = "could not compute hashes"))
    /\ [][(mode = "upload" /\ pc = "complete") =>
             (completion' # "" /\ ret' = completion' /\ result' = result)]_vars

\* C11 witness: both part uploads failed, the completion call was made once
\* and Upload returned success
C11_Witness ==
    /\ mode = "upload" /\ ret = "ok" /\ completion = "ok" /\ calls["Complete"] = 1
    /\ result = << "error", "error" >>

\* C12: Download returns success only if the tree hash of the output file,
\* computed when every worker has returned, exists and equals the hash recorded
\* from the job; a run that got to the verification with a file whose hash
\* differs from the recorded one returns hash mismatch.
C12_SuccessMeansHashEqual ==
    mode = "download" =>
       /\ pc = "checkTreeHash" => (AllReturned /\ closed)
       /\ ret = "ok" =>
             /\ AllReturned /\ closed
             /\ ComputeTreeHash(dest.content) # None
             /\ ComputeTreeHash(dest.content) = treeHash
       /\ (pc = "done" /\ closed /\ ComputeTreeHash(dest.content) # None
             /\ ComputeTreeHash(dest.content) # treeHash)
          => ret = "hash mismatch"

\* C12 witness: both ranges reported success and Download returned hash
\* mismatch
C12_Witness ==
    /\ mode = "download" /\ ret = "hash mismatch" /\ result = << "ok", "ok" >>

\* the archive bytes of range r are not all the fill value of Truncate
NonZero(r) == \E b \in (r.Offset + 1)..(r.Offset + r.Limit) : b <= Len(data) /\ data[b] # 0
AnyFailed == \E i \in 1..Len(yielded) : result[i] \in Failures

\* C13 as stated: a Download run in which the per-range function failed for
\* some range ends with hash mismatch.
C13_AsStated ==
    (mode = "download" /\ pc = "done" /\ closed /\ AnyFailed) => ret = "hash mismatch"

\* C13, amended: a Download run in which the per-range function failed before
\* its write, for a range whose archive bytes are not all zero, ends with hash
\* mismatch.
C13_FailedRangeIsCaught ==
    (mode = "download" /\ pc = "done" /\ closed
        /\ \E i \in 1..Len(yielded) :
              result[i] \in Failures \ { "write error" } /\ NonZero(yielded[i]))
    => ret = "hash mismatch"

\* C13 witness: the job recorded the archive's hash, the first range was
\* written, the second (not all zero) failed, and Download returned hash
\* mismatch
C13_Witness ==
    /\ mode = "download" /\ ret = "hash mismatch" /\ treeHash = ComputeTreeHash(data)
    /\ result = << "ok", "error" >> /\ NonZero(yielded[2])
    /\ SubSeq(dest.content, 1, yielded[1].Limit) = SubSeq(data, 1, yielded[1].Limit)
\* ---------------------------------------------------------------- parsing
\* utils.RangeFromString called on any text of these characters
TextChars == { "0", "1", "5", "7", "8", "-", "+", "x" }
Texts == SeqsOf(TextChars, MaxText)

\* (*Range).String called on the range of the bytes a..b, 0 <= a <= b
Ranges ==
    UNION { { Range(a, Wrap(b - a + 1)) : b \in a..MaxInt64 } : a \in 0..MaxInt64 }

ParseInit ==
    /\ mode = "parse"
    /\ \/ pc = "parse" /\ rangeText \in Texts /\ rng = None
       \/ pc = "format" /\ rangeText = << >> /\ rng \in { Some(r) : r \in Ranges }
    /\ parsed = None
    /\ partSize = 1 /\ jobs = 0 /\ run = 1
    /\ uploadId = "" /\ data = << >> /\ dest = NoPath /\ file = "none"
    /\ size = 0 /\ offset = 0 /\ uploaded = {} /\ treeHash = None
    /\ more = TRUE /\ closed = FALSE
    /\ wk = [w \in Workers |-> [st |-> "none", idx |-> 0]]
    /\ yielded = << >> /\ invoked = << >> /\ result = << >>
    /\ examined = << >> /\ listed = << >> /\ declared = << >>
    /\ calls = [op \in Ops |-> 0] /\ reqs = {}
    /\ completion = "" /\ location = None /\ job = None /\ ret = ""

RangeStringCall ==
    /\ mode = "parse" /\ pc = "format"
    /\ rangeText' = RangeString(rng[1])
    /\ pc' = "parse"
    /\ UNCHANGED << mode, partSize, jobs, run, rng, parsed, job, completion, location, uploadId,
                    data, dest, file, size, offset, uploaded, treeHash, more, pool,
                    listing, calls, reqs, ret >>

RangeFromStringCall ==
    /\ mode = "parse" /\ pc = "parse"
    /\ parsed' = RangeFromString(rangeText)
    /\ pc' = "parsed"
    /\ UNCHANGED << mode, partSize, jobs, run, rng, rangeText, job, completion, location, uploadId, data,
                    dest, file, size, offset, uploaded, treeHash, more, pool, listing,
                    calls, reqs, ret >>

ParseNext == RangeStringCall \/ RangeFromStringCall

ParseSpec == ParseInit /\ [][ParseNext]_vars

\* ---------------------------------------------------------------- hashing
\* utils.ComputeTreeHash called on a reader over the bytes data that stands at
\* the position offset: it reads from there to the end
Streams == SeqsOf(Bytes, MaxStream)
Yields(d, pos) == SubSeq(d, pos + 1, Len(d))

HashInit ==
    /\ mode = "hash" /\ pc = "hash"
    /\ data \in Streams /\ offset \in 0..Len(data) /\ treeHash = None
    /\ size = Len(data)
    /\ rng = None /\ rangeText = << >> /\ parsed = None
    /\ partSize = 1 /\ jobs = 0 /\ run = 1
    /\ uploadId = "" /\ dest = NoPath /\ file = "none" /\ uploaded = {}
    /\ more = TRUE /\ closed = FALSE
    /\ wk = [w \in Workers |-> [st |-> "none", idx |-> 0]]
    /\ yielded = << >> /\ invoked = << >> /\ result = << >>
    /\ examined = << >> /\ listed = << >> /\ declared = << >>
    /\ calls = [op \in Ops |-> 0] /\ reqs = {}
    /\ completion = "" /\ location = None /\ job = None /\ ret = ""

ComputeTreeHashCall ==
    /\ mode = "hash" /\ pc = "hash"
    /\ treeHash' = ComputeTreeHash(Yields(data, offset))
    /\ pc' = "hashed"
    /\ UNCHANGED << env, job, completion, location, uploadId, data, dest, file, size, offset,
                    uploaded, more, pool, listing, calls, reqs, ret >>

HashNext == ComputeTreeHashCall

HashSpec == HashInit /\ [][HashNext]_vars

\* ---------------------------------------------------------------- C14
\* C14 (as stated): job validation maps every job description to one outcome,
\* in this order: a transport error is returned unchanged; an action other
\* than ArchiveRetrieval gives the unsupported-action error naming the action;
\* InProgress gives the not-yet-succeeded error; Failed gives the failed error
\* carrying the remote message; another status gives the unexpected-status
\* error naming it; Succeeded without a tree hash gives the
\* not-tree-hash-aligned error; only Succeeded with a tree hash is accepted.
Accepted(j) == pc # "checkJob" /\ treeHash = j.SHA256TreeHash /\ ret # "panic"
Rejected(e) == pc = "done" /\ ret = e /\ treeHash = None
C14_AsStated ==
    (mode = "download" /\ job # None) =>
        LET j == job[1] IN
        IF j.err # "" THEN Rejected(j.err)
        ELSE IF j.Action # "ArchiveRetrieval"
             THEN Rejected(j.Action \o " action is not supported")
        ELSE IF j.StatusCode = "InProgress" THEN Rejected("the job is not succeeded yet")
        ELSE IF j.StatusCode = "Failed"
             THEN \E m \in { "", "message" } : Rejected("the job is failed: " \o m)
        ELSE IF j.StatusCode # "Succeeded"
             THEN Rejected("job status is unexpected: " \o j.StatusCode)
        ELSE IF j.SHA256TreeHash = None
             THEN Rejected("the retrieved range must be tree-hash aligned")
        ELSE Accepted(j)

\* ---------------------------------------------------------------- C15
\* C15: Download creates its output exclusively: when the destination path
\* exists already, as a file or as a directory, the create step fails,
\* Download returns that error, the path is left as it was, and the run
\* fetches no range (a step of the run: one that is not the start of the next).
C15_ExclusiveCreate ==
    /\ []((mode = "download" /\ ret = "file exists") =>
            (pc = "done" /\ dest.exists /\ calls["GetJobOutput"] = 0 /\ yielded = << >>))
    /\ [][(mode = "download" /\ pc = "openFile" /\ dest.exists /\ run' = run) =>
            (pc' = "done" /\ ret' = "file exists" /\ dest' = dest /\ calls' = calls)]_vars
C15_Witness ==
    /\ mode = "download" /\ run = 1 /\ ret = "file exists"
    /\ ~dest.dir /\ dest.content = << 1 >>

\* ---------------------------------------------------------------- C16
\* the create step of a run after the first
LaterCreate == mode = "download" /\ run > 1 /\ pc = "openFile" /\ run' = run

\* C16 (as stated): a second Download run for the same job and destination,
\* after an earlier run that was interrupted or failed, proceeds from a fresh
\* output file with the cursor at 0: its create step does not fail on the
\* output the earlier run left.
C16_AsStated ==
    (mode = "download" /\ run > 1 /\ dest.by \in 1..(run - 1)) => ret # "file exists"

\* C16 (amended): a later run does not reconcile against the earlier output.
\* When the destination exists, its create step fails with the already-exists
\* error and leaves the earlier output as it is; only when the destination
\* does not exist can it go on, and then it dispatches from a new file of
\* zero bytes with the cursor at 0.
C16_NoReconcile ==
    /\ []((mode = "download" /\ run > 1 /\ pc = "spawn") =>
            (offset = 0 /\ yielded = << >> /\ dest.content = Zeros(size)))
    /\ []((mode = "download" /\ run > 1 /\ Len(yielded) > 0) => yielded[1].Offset = 0)
    /\ [][LaterCreate =>
            IF dest.exists
            THEN pc' = "done" /\ ret' = "file exists" /\ dest' = dest
            ELSE \/ pc' = "done" /\ ret' = "open error" /\ dest' = dest
                 \/ pc' = "truncate" /\ dest'.exists /\ dest'.content = << >>]_vars
\* the second run fails on the output the first run left unfinished
C16_Witness ==
    /\ mode = "download" /\ run = 2 /\ ret = "file exists"
    /\ dest.by = 1 /\ dest.content # data

\* ---------------------------------------------------------------- C19
\* C19: initiate-or-resume. With a non-empty upload identifier the step makes
\* no remote call and leaves the identifier unchanged; with an empty one it
\* makes exactly one initiate call and, on success, records the returned
\* identifier; when that call fails the error is returned unchanged and the
\* identifier stays empty.
C19_InitiateOrResume ==
    /\ [](mode = "upload" =>
            /\ calls["Initiate"] <= 1
            /\ uploadId = "resumed" => calls["Initiate"] = 0
            /\ uploadId = "initiated" => calls["Initiate"] = 1
            /\ ret = "initiate error" => (uploadId = "" /\ calls["Initiate"] = 1))
    /\ [][(mode = "upload" /\ pc = "initiate") =>
            IF uploadId # ""
            THEN calls' = calls /\ uploadId' = uploadId /\ ret' = "" /\ pc' = "reconcile"
            ELSE /\ calls' = [calls EXCEPT !["Initiate"] = 1]
                 /\ \/ uploadId' = "initiated" /\ ret' = "" /\ pc' = "reconcile"
                    \/ uploadId' = "" /\ ret' = "initiate error" /\ pc' = "done"
         ]_vars
\* a resumed run went past the step without a call, up to its completion
C19_Witness ==
    /\ mode = "upload" /\ uploadId = "resumed" /\ calls["Initiate"] = 0
    /\ calls["Complete"] = 1

\* ---------------------------------------------------------------- C17, C18
\* the step in which downloadPart returns to worker w
Finishes(w) ==
    /\ mode = "download" /\ wk[w].st = "busy" /\ run' = run
    /\ result'[wk[w].idx] # result[wk[w].idx]
\* the responses that pass the checks of downloadPart for the range r: the
\* requested length, and the checksum, if there is one, equal to the local hash
Passing(r) ==
    { resp \in Responses(r, data) :
        /\ resp.err = "" /\ Len(resp.body) = r.Limit
        /\ resp.sum # None => resp.sum = ComputeTreeHash(resp.body) }

\* C17: a range fetch whose response body is shorter or longer than the
\* requested range fails that range with the size-mismatch error, whatever
\* checksum the response carries (the length is checked before the per-part
\* hash), and a range that fails so leaves the output file as it was (before
\* any write).
C17_SizeCheckedFirst ==
    /\ [](mode = "download" =>
            \A w \in Busy : \A resp \in Responses(yielded[wk[w].idx], data) :
                (resp.err = "" /\ Len(resp.body) # yielded[wk[w].idx].Limit)
                => DownloadPartCheck(resp, yielded[wk[w].idx]) = "size mismatch")
    /\ [][\A w \in Workers :
             (Finishes(w) /\ result'[wk[w].idx] = "size mismatch")
             => /\ dest' = dest
                /\ \E resp \in Responses(yielded[wk[w].idx], data) :
                      resp.err = "" /\ Len(resp.body) # yielded[wk[w].idx].Limit
          ]_vars
\* a range of two bytes failed with the size mismatch, the file still zeros
C17_Witness ==
    /\ mode = "download" /\ Len(yielded) = 1 /\ yielded[1].Limit = 2
    /\ result[1] = "size mismatch" /\ dest.content = Zeros(size)

\* C18: the per-part verification depends on the response. With a checksum,
\* the bytes are written only if their local tree hash equals it, and the
\* range fails with the hash mismatch when the two differ; without a checksum
\* the bytes are written without a per-part check.
C18_ChecksumGuardsWrite ==
    /\ [](mode = "download" =>
            \A w \in Busy : \A resp \in Responses(yielded[wk[w].idx], data) :
                (resp.err = "" /\ Len(resp.body) = yielded[wk[w].idx].Limit)
                => LET e == DownloadPartCheck(resp, yielded[wk[w].idx])
                       local == ComputeTreeHash(resp.body)
                   IN  IF resp.sum = None THEN e = ""
                       ELSE /\ (e = "") = (local = resp.sum)
                            /\ (local # None /\ local # resp.sum) => e = "hash mismatch")
    /\ [][\A w \in Workers :
             Finishes(w)
             => LET r == yielded[wk[w].idx] IN
                /\ result'[wk[w].idx] = "hash mismatch" => dest' = dest
                /\ result'[wk[w].idx] = "ok" =>
                      \E resp \in Passing(r) :
                          dest'.content = WriteAt(dest.content, resp.body, r.Offset)
                /\ dest' # dest =>
                      \E resp \in Passing(r) : \E n \in 0..Len(resp.body) :
                          dest'.content =
                              WriteAt(dest.content, SubSeq(resp.body, 1, n), r.Offset)
          ]_vars
\* one range failed with the hash mismatch and left its zeros, another was
\* written
C18_Witness ==
    /\ mode = "download" /\ Len(yielded) = 2
    /\ result = << "hash mismatch", "ok" >>
    /\ dest.content # Zeros(size) /\ dest.content[1] = 0

\* ---------------------------------------------------------------- C20
\* a text read as the claim reads it: the places of its separator, the text
\* before and after it, whether a text writes an integer, and which
Dashes(s) == { i \in 1..Len(s) : s[i] = "-" }
StartOf(s) == SubSeq(s, 1, (CHOOSE i \in Dashes(s) : TRUE) - 1)
EndOf(s) == SubSeq(s, (CHOOSE i \in Dashes(s) : TRUE) + 1, Len(s))
Unsigned(t) == IF Len(t) > 0 /\ t[1] = "+" THEN Tail(t) ELSE t
IsIntegerText(t) ==
    Len(Unsigned(t)) > 0 /\ \A i \in 1..Len(Unsigned(t)) : IsDigit(Unsigned(t)[i])
ValueOf(t) == ParseNat(Unsigned(t))
WellFormed(s) ==
    /\ Cardinality(Dashes(s)) = 1
    /\ IsIntegerText(StartOf(s)) /\ IsIntegerText(EndOf(s))
    /\ ValueOf(EndOf(s)) >= ValueOf(StartOf(s))

\* C20 (as stated): RangeFromString returns no value for every text that does
\* not have exactly one '-', whose start or end is not an integer, or whose
\* end is less than its start; for "a-b" with integers 0 <= a <= b it returns
\* Offset a and Limit b - a + 1; every range returned has Offset >= 0 and
\* Limit >= 1.
C20_AsStated ==
    (mode = "parse" /\ pc = "parsed") =>
        /\ ~WellFormed(rangeText) => parsed = None
        /\ WellFormed(rangeText) =>
              parsed = Some(Range(ValueOf(StartOf(rangeText)),
                                  ValueOf(EndOf(rangeText)) - ValueOf(StartOf(rangeText)) + 1))
        /\ parsed # None => (parsed[1].Offset >= 0 /\ parsed[1].Limit >= 1)

\* C20 (amended): the same for the integers of the source's width. A start or
\* an end above the largest int64, and the one text whose length b - a + 1
\* does not fit (a = 0, b = the largest int64), give no value as well.
Fits(s) ==
    /\ ValueOf(StartOf(s)) <= MaxInt64 /\ ValueOf(EndOf(s)) <= MaxInt64
    /\ ValueOf(EndOf(s)) - ValueOf(StartOf(s)) + 1 <= MaxInt64
C20_ParsesFittingRanges ==
    (mode = "parse" /\ pc = "parsed") =>
        /\ ~WellFormed(rangeText) => parsed = None
        /\ (WellFormed(rangeText) /\ ~Fits(rangeText)) => parsed = None
        /\ (WellFormed(rangeText) /\ Fits(rangeText)) =>
              parsed = Some(Range(ValueOf(StartOf(rangeText)),
                                  ValueOf(EndOf(rangeText)) - ValueOf(StartOf(rangeText)) + 1))
        /\ parsed # None => (parsed[1].Offset >= 0 /\ parsed[1].Limit >= 1)
\* the longest range that is returned
C20_Witness ==
    /\ mode = "parse" /\ pc = "parsed" /\ parsed # None
    /\ parsed[1].Offset = 1 /\ parsed[1].Limit = MaxInt64

\* ---------------------------------------------------------------- C21
\* C21 (as stated): formatting then parsing is the identity: for all
\* non-negative 64-bit integers a <= b, RangeFromString(String(Range{a,
\* b-a+1})) equals that Range, and the text produced is "a-b".
InclusiveText(r) ==
    \E b \in r.Offset..MaxInt64 :
        /\ r.Limit = Wrap(b - r.Offset + 1)
        /\ rangeText = FormatNat(r.Offset) \o << "-" >> \o FormatNat(b)
C21_AsStated ==
    (mode = "parse" /\ pc = "parsed" /\ rng # None) =>
        (parsed = rng /\ InclusiveText(rng[1]))

\* C21 (amended): the same for the ranges whose length b-a+1 fits the
\* integer, that is for all of them but a = 0, b = the largest int64.
C21_RoundTrip ==
    (mode = "parse" /\ pc = "parsed" /\ rng # None) =>
        /\ InclusiveText(rng[1])
        /\ rng[1].Limit >= 1 => parsed = rng
        /\ rng[1].Limit < 1 => parsed = None
C21_Witness ==
    /\ mode = "parse" /\ pc = "parsed" /\ rng = Some(Range(2, 4))
    /\ rangeText = << "2", "-", "5" >> /\ parsed = rng

\* ---------------------------------------------------------------- C22
\* C22: ComputeTreeHash returns no value if and only if the stream yields no
\* byte; for a stream of at most one chunk the digest is the plain hash of
\* the content (one leaf, nothing combined), and streams that yield equal
\* content have equal digests.
C22_DigestUnlessEmpty ==
    (mode = "hash" /\ pc = "hashed") =>
        LET content == Yields(data, offset) IN
        /\ (treeHash = None) = (Len(content) = 0)
        /\ Len(content) \in 1..ChunkBytes => treeHash = Some(HexEncode(Sha256(content)))
        /\ \A d \in Streams : \A pos \in 0..Len(d) :
              Yields(d, pos) = content => ComputeTreeHash(Yields(d, pos)) = treeHash
\* a reader that stands after the first of three bytes yields one chunk and
\* got a digest
C22_Witness ==
    /\ mode = "hash" /\ pc = "hashed"
    /\ Len(data) = 3 /\ offset = 1 /\ treeHash # None

\* ---------------------------------------------------------------- C23
\* C23: whenever Upload or Download returns, by success or by any error, the
\* file handle the run opened has been closed (also when the open step fails
\* on a directory or on a stat error), and the handle is never closed while a
\* worker of the run is still in its per-range function.
C23_HandleClosedOnReturn ==
    (mode \in { "upload", "download" }) =>
        /\ pc = "done" => file # "open"
        /\ file = "closed" => (pc = "done" /\ Busy = {})
        /\ Busy # {} => file = "open"
\* the dispatcher ran with two workers, the run returned, the handle is closed
C23_Witness ==
    /\ mode = "download" /\ pc = "done" /\ file = "closed"
    /\ jobs = 2 /\ Len(yielded) >= 2 /\ ret = "hash mismatch"

\* ---------------------------------------------------------------- C24
\* the bytes of the file at the positions off .. off + n - 1
FileBytes(off, n) == [i \in 1..n |-> data[off + i]]
PartRequests == { rq \in reqs : rq.op = "UploadPart" }
NoHash(r) == ComputeTreeHash(SectionBytes(data, r.Offset, r.Limit)) = None

\* C24: every part upload sent for a range [offset, offset+limit) carries
\* exactly the file's bytes of that interval as body, the tree hash of exactly
\* those bytes as checksum, and the range text "bytes offset-(offset+limit-1)/*";
\* when the hash of the slice cannot be computed, uploadPart fails with the
\* hashing error and sends no request.
C24_PartRequestExact ==
    /\ [](mode = "upload" =>
            /\ \A rq \in PartRequests :
                  LET r == yielded[rq.idx] IN
                  /\ r.Limit >= 1 /\ r.Offset >= 0 /\ r.Offset + r.Limit <= Len(data)
                  /\ rq.body = FileBytes(r.Offset, r.Limit)
                  /\ Some(rq.sum) = ComputeTreeHash(FileBytes(r.Offset, r.Limit))
                  /\ rq.text = BytesSp \o FormatNat(r.Offset) \o << "-" >>
                                  \o FormatNat(r.Offset + r.Limit - 1) \o SlashStar
            /\ \A w \in Busy : \A o \in 0..MaxSize : \A l \in 0..MaxPart :
                  NoHash(Range(o, l)) => UploadPartRequest(wk[w].idx, Range(o, l), data) = None)
    /\ [][\A w \in Workers :
             (mode = "upload" /\ wk[w].st = "busy" /\ result'[wk[w].idx] # "running")
             => IF NoHash(yielded[wk[w].idx])
                THEN reqs' = reqs /\ calls' = calls /\ result'[wk[w].idx] = "error"
                ELSE /\ calls' = [calls EXCEPT !["UploadPart"] = @ + 1]
                     /\ \E rq \in PartRequests' : rq.idx = wk[w].idx
          ]_vars
\* the part of the last byte of a three-byte file was sent
C24_Witness ==
    /\ mode = "upload" /\ data = << 1, 1, 0 >>
    /\ \E rq \in PartRequests :
          /\ rq.text = BytesSp \o << "2", "-", "2" >> \o SlashStar
          /\ rq.body = << 0 >>

\* ---------------------------------------------------------------- C25
CompleteRequests == { rq \in reqs : rq.op = "Complete" }

\* C25: the completion step submits the tree hash of the whole file, from its
\* start, together with the measured file size; it returns the remote location
\* and no error on success, and no location together with the error when the
\* remote call fails; when the whole-file hash cannot be computed it fails
\* with the hashing error without sending the completion call.
C25_CompletionStep ==
    /\ [](mode = "upload" =>
            /\ \A rq \in CompleteRequests :
                  /\ Some(rq.sum) = ComputeTreeHash(Yields(data, 0))
                  /\ rq.text = FormatNat(Len(data))
            /\ Cardinality(CompleteRequests) = calls["Complete"]
            /\ completion = "" => (location = None /\ calls["Complete"] = 0)
            /\ completion = "ok" => (location # None /\ calls["Complete"] = 1)
            /\ completion = "complete error" => (location = None /\ calls["Complete"] = 1)
            /\ completion = "could not compute hashes" =>
                  (location = None /\ calls["Complete"] = 0 /\ Len(data) = 0)
            /\ completion \in { "", "ok", "complete error", "could not compute hashes" })
    /\ [][(mode = "upload" /\ pc = "complete") =>
            IF Len(data) = 0
            THEN completion' = "could not compute hashes" /\ calls' = calls /\ reqs' = reqs
            ELSE completion' \in { "ok", "complete error" }
                 /\ calls' = [calls EXCEPT !["Complete"] = 1]
         ]_vars
\* the remote completion call failed
C25_Witness ==
    /\ mode = "upload" /\ completion = "complete error" /\ location = None
    /\ calls["Complete"] = 1 /\ Len(data) = 3

\* ---------------------------------------------------------------- C26
\* a step of a worker goroutine of this run: it receives a range, returns
\* from its per-range function, or leaves its loop
WorkerStep ==
    /\ run' = run
    /\ \E w \in Workers : wk[w].st \in { "idle", "busy" } /\ wk'[w] # wk[w]

\* C26: during dispatch the cursor and the confirmed set are read and written
\* by the dispatching thread only: no step of a worker changes the cursor, the
\* confirmed set, the recorded size, the upload identifier or the expected
\* hash; the cursor moves in the producer's getNextRange only, the confirmed
\* set before the dispatch only.
C26_WorkersLeaveCursor ==
    /\ [][WorkerStep =>
             /\ offset' = offset /\ uploaded' = uploaded /\ size' = size
             /\ uploadId' = uploadId /\ treeHash' = treeHash]_vars
    /\ [][(offset' # offset /\ run' = run) => (pc = "next" /\ wk' = wk)]_vars
    /\ [][(uploaded' # uploaded) => (pc = "reconcile" /\ wk' = wk)]_vars
\* a part upload succeeded while the cursor was inside the file, after a
\* reconciliation that confirmed a part
C26_Witness ==
    /\ mode = "upload" /\ pc = "next" /\ offset > 0 /\ offset < size
    /\ uploaded # {} /\ \E i \in 1..Len(yielded) : result[i] = "ok"

\* ---------------------------------------------------------------- C27
\* the byte positions of an interval
Positions(off, n) == off..(off + n - 1)
\* the ranges whose per-range function was started
Started == { i \in 1..Len(yielded) : invoked[i] >= 1 }

\* C27: in a Download run with part size >= 1, the intervals written to the
\* output file by any two per-range invocations are disjoint, whether they
\* overlap in time or not: every byte position of [0, S) is written at most
\* once, no write falls outside [0, S), and no two upload workers read
\* overlapping intervals of the source file.
C27_DisjointWrites ==
    /\ (mode = "download" /\ partSize >= 1 /\ dest.by = run) =>
          /\ \A a \in dest.writes : \A b \in dest.writes :
                a # b => Positions(a.off, a.n) \cap Positions(b.off, b.n) = {}
          /\ \A a \in dest.writes : Positions(a.off, a.n) \subseteq 0..(size - 1)
          /\ \A pos \in 0..(size - 1) :
                Cardinality({ a \in dest.writes : pos \in Positions(a.off, a.n) }) <= 1
    /\ (mode = "upload" /\ partSize >= 1) =>
          /\ \A i \in Started : invoked[i] = 1
          /\ \A i \in Started : \A j \in Started :
                i # j => Positions(yielded[i].Offset, yielded[i].Limit)
                            \cap Positions(yielded[j].Offset, yielded[j].Limit) = {}
\* two workers wrote the two ranges of a three-byte archive
C27_Witness ==
    /\ mode = "download" /\ partSize = 2 /\ jobs = 2 /\ size = 3
    /\ dest.writes = { Written(1, 0, 2), Written(2, 2, 1) }

\* ---------------------------------------------------------------- C28
\* the error of the first check of checkPart that the listed part p fails
CheckError(p) ==
    IF PartRange(p) = None THEN InvalidRange(p.RangeInBytes)
    ELSE IF PartRange(p)[1].Offset >= size THEN "file size mismatch"
    ELSE HashingFailed(p.RangeInBytes)
\* the local file cut down to its first n bytes
CutTo(n) == SubSeq(data, 1, n)

\* C28: reconciliation checks each listed part in the order: range text
\* parses, start offset below the local file size, local tree hash of the
\* range computable. The first listed part that fails one of these aborts
\* reconciliation with the matching error (invalid range naming the text,
\* file size mismatch, hashing failure naming the range); that part adds
\* nothing to the confirmed set and no part listed after it is examined.
C28_FirstFailureAborts ==
    /\ [](mode = "upload" =>
            /\ \A i \in 1..Len(examined) : ~Comparable(examined[i]) =>
                  /\ i = Len(examined)
                  /\ pc = "done" /\ ret = CheckError(examined[i])
            /\ ret \in CheckPartErrors =>
                  (examined # << >> /\ ~Comparable(examined[Len(examined)]))
            /\ (pc = "reconcile" /\ examined = << >>) =>
                  /\ \A p1 \in ListedParts(data) : \A p2 \in ListedParts(data) :
                        LET c == CheckParts(<< p1, p2 >>, size, data, uploaded, examined)
                            c1 == CheckPart(p1, size, data, uploaded)
                        IN  /\ ~Comparable(p1) =>
                                  /\ c.err = CheckError(p1)
                                  /\ c.uploaded = uploaded
                                  /\ c.examined = Append(examined, p1)
                            /\ (Comparable(p1) /\ ~Comparable(p2)) =>
                                  /\ c.err = CheckError(p2)
                                  /\ c.uploaded = c1.uploaded
                                  /\ c.examined = examined \o << p1, p2 >>
                  /\ \A p \in ListedParts(data) :
                        (PartRange(p) # None /\ PartRange(p)[1].Offset < size) =>
                           \A n \in 0..PartRange(p)[1].Offset :
                              CheckPart(p, size, CutTo(n), uploaded)
                                 = [err |-> HashingFailed(p.RangeInBytes),
                                    ok |-> FALSE, uploaded |-> uploaded])
    /\ [][(mode = "upload" /\ Len(examined') > Len(examined)
             /\ ~Comparable(examined'[Len(examined')]))
           => /\ pc' = "done" /\ ret' = CheckError(examined'[Len(examined')])
              /\ uploaded' = { PartRange(examined'[i])[1].Offset :
                                 i \in { j \in 1..(Len(examined') - 1) :
                                           Matching(examined'[j]) } }]_vars
    /\ [][(mode = "upload" /\ ret \in CheckPartErrors)
           => (examined' = examined /\ uploaded' = uploaded /\ calls' = calls)]_vars
\* the second page listed a part that starts at the end of the file, after the
\* first page confirmed a part
C28_Witness ==
    /\ mode = "upload" /\ Len(examined) = 2 /\ Matching(examined[1])
    /\ PartRange(examined[2]) # None /\ PartRange(examined[2])[1].Offset = size
    /\ ret = "file size mismatch" /\ Cardinality(uploaded) = 1

\* ---------------------------------------------------------------- C29
\* checkUploadedParts returned nil in this run
Reconciled ==
    /\ mode = "upload" /\ calls["ListParts"] >= 1
    /\ pc # "reconcile" /\ ret \notin ReconcileErrors
\* some listed part starts at o and its recorded hash equals the local one
ConfirmedBy(o) ==
    \E i \in 1..Len(listed) :
        Matching(listed[i]) /\ PartRange(listed[i])[1].Offset = o

\* C29: after a successful reconciliation on a freshly constructed Uploader an
\* offset is in the confirmed set if and only if some listed part, on any page
\* of the listing, starts at that offset and has a recorded hash equal to the
\* local tree hash of its byte range; every page is processed, and an error
\* of the pager is what Upload returns.
C29_ConfirmedIffListedMatch ==
    /\ [](Reconciled =>
            /\ \A o \in uploaded : ConfirmedBy(o)
            /\ \A i \in 1..Len(listed) :
                  Matching(listed[i]) => PartRange(listed[i])[1].Offset \in uploaded
            /\ ~more /\ listed = examined
            /\ Len(declared) = calls["ListParts"])
    /\ [](mode = "upload" =>
            /\ ret = "list error" =>
                  /\ pc = "done" /\ Len(declared) = calls["ListParts"] - 1
                  /\ calls["UploadPart"] = 0 /\ calls["Complete"] = 0
            /\ (ret # "list error" /\ pc # "reconcile") =>
                  Len(declared) = calls["ListParts"])
    /\ [][(mode = "upload" /\ pc = "reconcile" /\ pc' # "reconcile" /\ ret' = "")
           => ~more]_vars
    /\ [][(mode = "upload" /\ calls'["ListParts"] > calls["ListParts"]
             /\ Len(declared') = Len(declared))
           => (ret' = "list error" /\ pc' = "done" /\ uploaded' = uploaded)]_vars
\* the first page listed a part at an offset with a stale hash, the second
\* page listed the part at the same offset with the hash of the local bytes
C29_Witness ==
    /\ Reconciled /\ Len(declared) = 2 /\ Len(listed) = 2
    /\ Mismatching(listed[1]) /\ Matching(listed[2])
    /\ PartRange(listed[1])[1].Offset = PartRange(listed[2])[1].Offset
    /\ uploaded = { PartRange(listed[2])[1].Offset }

\* ---------------------------------------------------------------- C30
\* the job description passes every check of checkJob
Valid(j) ==
    /\ j.err = "" /\ j.Action = "ArchiveRetrieval" /\ j.StatusCode = "Succeeded"
    /\ j.SHA256TreeHash # None /\ j.ArchiveSizeInBytes # None
\* the run has recorded nothing, created nothing and fetched nothing
Untouched ==
    /\ size = 0 /\ treeHash = None
    /\ file = "none" /\ dest.by # run
    /\ calls["GetJobOutput"] = 0 /\ yielded = << >> /\ reqs = {}

\* C30: if job validation fails for any reason, the recorded archive size and
\* the expected whole-file hash keep their initial unset values, the
\* destination file is not created and no range fetch is issued; they are set
\* only by a validation that succeeds, to the values of the job description.
C30_FailedValidationSetsNothing ==
    /\ [](mode = "download" =>
            /\ job = None => (Untouched /\ pc = "checkJob")
            /\ (job # None /\ ~Valid(job[1])) =>
                  (Untouched /\ pc = "done" /\ ret \notin { "", "ok" })
            /\ (job # None /\ Valid(job[1])) =>
                  /\ size = job[1].ArchiveSizeInBytes[1]
                  /\ treeHash = job[1].SHA256TreeHash
                  /\ pc # "checkJob")
    /\ [][(mode = "download" /\ run' = run /\ pc = "checkJob" /\ pc' = "done")
           => (size' = size /\ treeHash' = treeHash /\ dest' = dest /\ reqs' = reqs)]_vars
    /\ [][(mode = "download" /\ run' = run
             /\ (size' # size \/ treeHash' # treeHash))
           => (pc = "checkJob" /\ pc' = "openFile" /\ Valid(job'[1]))]_vars
\* a succeeded job without a tree hash was rejected: its size was described
\* but not recorded, and the destination path is still absent
C30_Witness ==
    /\ mode = "download" /\ job # None /\ ~dest.exists
    /\ job[1].StatusCode = "Succeeded" /\ job[1].SHA256TreeHash = None
    /\ job[1].ArchiveSizeInBytes = Some(MaxSize) /\ size = 0
    /\ ret = "the retrieved range must be tree-hash aligned"

\* ---------------------------------------------------------------- C31
\* the ranges whose downloadPart returned an error before the write
FailedBeforeWrite ==
    { i \in 1..Len(result) : result[i] \in { "error", "size mismatch", "hash mismatch" } }

\* C31: a per-range download invocation that fails on the transport call, on
\* reading the body, on the size check or on the per-part hash check leaves
\* the output file unchanged: bytes of a range reach the file only after all
\* of that range's checks passed, so after dispatch every position of a
\* failed range still holds the fill value of the freshly extended file.
C31_FailureBeforeWriteLeavesFile ==
    /\ []((mode = "download" /\ dest.by = run) =>
            /\ \A i \in FailedBeforeWrite :
                  /\ \A a \in dest.writes : a.idx # i
                  /\ \A pos \in Positions(yielded[i].Offset, yielded[i].Limit) :
                        dest.content[pos + 1] = 0
            /\ \A a \in dest.writes :
                  /\ a.idx \in 1..Len(result)
                  /\ result[a.idx] \in { "ok", "write error" }
                  /\ a.n = yielded[a.idx].Limit <=> result[a.idx] = "ok")
    /\ [][\A w \in Workers :
             (mode = "download" /\ run' = run /\ wk[w].st = "busy"
                /\ wk[w].idx \in FailedBeforeWrite')
             => dest' = dest]_vars
\* dispatch returned with the first range of a three-byte archive failed on its
\* part hash and the second written: the first two bytes are still zero
C31_Witness ==
    /\ mode = "download" /\ partSize = 2 /\ size = 3 /\ data = << 1, 1, 1 >>
    /\ DispatchReturned /\ Len(result) = 2
    /\ result[1] = "hash mismatch" /\ result[2] = "ok"
    /\ dest.content = << 0, 0, 1 >>

\* ---------------------------------------------------------------- C32
\* C32: for part size P >= 1, every range yielded by either coordinator has an
\* Offset that is a non-negative multiple of P, a Limit with 1 <= Limit <= P,
\* and Offset + Limit <= S; Limit < P holds only for the range that ends at S,
\* and in Upload the yielded offset is never in the confirmed set.
C32_YieldedRangeShape ==
    partSize >= 1 =>
       \A i \in 1..Len(yielded) :
          LET r == yielded[i] IN
          /\ r.Offset >= 0 /\ r.Offset % partSize = 0
          /\ 1 <= r.Limit /\ r.Limit <= partSize
          /\ r.Offset + r.Limit <= size
          /\ r.Limit < partSize => r.Offset + r.Limit = size
          /\ mode = "upload" => r.Offset \notin uploaded
\* an Upload of three bytes in parts of two, the first part confirmed: only the
\* short last range [2, 3) was yielded
C32_Witness ==
    /\ mode = "upload" /\ partSize = 2 /\ size = 3 /\ uploaded = { 0 }
    /\ yielded = << Range(2, 1) >> /\ DispatchReturned

\* ---------------------------------------------------------------- C33
\* what getNextRange gives with part size 0 on a non-empty file: the empty
\* range at offset 0, the cursor left at 0
ZeroLengthYield == [r |-> Some(Range(0, 0)), offset |-> 0, spin |-> FALSE]

UploadedNow ==
    UNION { Positions(yielded[i].Offset, yielded[i].Limit) :
              i \in { j \in 1..Len(yielded) : result[j] = "ok" } }
\* the positions of the listed parts whose hash was confirmed
ConfirmedBytes ==
    UNION { Positions(PartRange(listed[k])[1].Offset, PartRange(listed[k])[1].Limit) :
              k \in { j \in 1..Len(listed) : Matching(listed[j]) } }
\* the interval the cursor skips for the confirmed offset o
Skipped(o) == Positions(o, RangeLimit(o, size, partSize))
\* every part upload of a returned dispatch succeeded
AllUploaded ==
    /\ mode = "upload" /\ DispatchReturned /\ partSize >= 1 /\ jobs >= 1
    /\ \A i \in 1..Len(yielded) : result[i] = "ok"

\* C34 as stated: after reconciliation and a dispatch in which every part
\* upload succeeds, every byte of [0, S) lies in a range uploaded in this run
\* or in the byte range of a listed part whose hash was confirmed; a confirmed
\* offset o makes the cursor skip [o, min(o+P, S)) only when a confirmed part
\* covers that whole interval.
C34_AsStated ==
    AllUploaded =>
       /\ \A pos \in 0..(size - 1) : pos \in UploadedNow \cup ConfirmedBytes
       /\ \A o \in uploaded :
             (o % partSize = 0) =>
                \E k \in 1..Len(listed) :
                   /\ Matching(listed[k]) /\ PartRange(listed[k])[1].Offset = o
                   /\ Skipped(o) \subseteq
                         Positions(o, PartRange(listed[k])[1].Limit)
\* what getNextRange keeps: every byte lies in a range uploaded in this run or
\* in the interval skipped for a confirmed offset
CoveredOrSkipped ==
    AllUploaded =>
       \A pos \in 0..(size - 1) :
          pos \in UploadedNow \cup UNION { Skipped(o) : o \in uploaded }

\* ---------------------------------------------------------------- C35
\* an Upload that opened a source file of size 0
EmptySource == mode = "upload" /\ file # "none" /\ data = << >>
\* a Download whose job passed validation with archive size 0
EmptyArchive ==
    /\ mode = "download" /\ job # None /\ Valid(job[1])
    /\ job[1].ArchiveSizeInBytes = Some(0)
\* the errors of the Download steps between validation and dispatch
CreateErrors == { "file exists", "open error", "truncate error" }

\* C35: an empty archive can never be transferred: for a source file of size
\* 0, Upload yields no range, sends no completion call and, when the steps
\* before it succeed, returns the hashing error; for a succeeded job of
\* archive size 0, Download creates the output file (when the path is free),
\* fetches no range and returns the hashing error, whatever expected hash the
\* job carries.
C35_EmptyNeverTransferred ==
    /\ [](EmptySource =>
            /\ size = 0 /\ yielded = << >> /\ ret # "ok"
            /\ calls["UploadPart"] = 0 /\ calls["Complete"] = 0
            /\ (pc = "done"
                  /\ ret \notin OpenErrors \cup ReconcileErrors \cup { "initiate error" })
               => (ret = "could not compute hashes" /\ DispatchReturned))
    /\ [](EmptyArchive =>
            /\ size = 0 /\ yielded = << >> /\ ret # "ok"
            /\ calls["GetJobOutput"] = 0
            /\ (pc = "done" /\ ret \notin CreateErrors)
               => /\ ret = "could not compute hash" /\ DispatchReturned
                  /\ dest.exists /\ dest.by = run /\ dest.content = << >>)
    /\ [][(EmptySource /\ pc = "complete") => ret' = "could not compute hashes"]_vars
    /\ [][(EmptyArchive /\ pc = "checkTreeHash" /\ run' = run)
           => ret' = "could not compute hash"]_vars
\* a Download of an empty archive whose job carries the hash of the empty
\* content created the file and returned the hashing error
C35_Witness ==
    /\ EmptyArchive /\ treeHash = Some(HexEncode(Sha256(<< >>)))
    /\ dest.exists /\ dest.by = run /\ dest.content = << >>
    /\ pc = "done" /\ ret = "could not compute hash" /\ jobs >= 1

\* ---------------------------------------------------------------- C36
\* the producer is at its hand-off and no worker exists
BlockedOnHandOff ==
    /\ jobs = 0 /\ pc = "send"
    /\ \A w \in Workers : wk[w].st = "none"

\* C36: a positive degree is a precondition the dispatcher does not check:
\* with jobs = 0 and at least one range to yield, the producer blocks forever
\* on the first hand-off (no worker exists to receive it) and the dispatcher
\* never returns; with jobs = 0 and no range to yield it returns at once.
C36_ZeroJobsBlocks ==
    /\ []((mode \in { "upload", "download" } /\ jobs = 0) =>
            /\ \A w \in Workers : wk[w].st = "none"
            /\ Len(yielded) <= 1
            /\ calls["UploadPart"] = 0 /\ calls["GetJobOutput"] = 0
            /\ yielded # << >> =>
                  /\ BlockedOnHandOff /\ ~closed /\ ~DispatchReturned
                  /\ invoked = << 0 >> /\ result = << "queued" >> /\ ret = ""
            /\ pc \in { "close", "wait" } => (yielded = << >> /\ Joined)
            /\ DispatchReturned => yielded = << >>)
    /\ [][(mode \in { "upload", "download" } /\ BlockedOnHandOff) => run' # run]_vars
    /\ [][(mode \in { "upload", "download" } /\ jobs = 0 /\ run' = run
             /\ pc = "next" /\ pc' # "next")
           => IF GetNextRange.r = None /\ ~GetNextRange.spin
              THEN pc' = "close" /\ yielded' = << >>
              ELSE pc' \in { "send", "spin" }]_vars
    /\ [][(mode \in { "upload", "download" } /\ jobs = 0 /\ run' = run
             /\ pc \in { "close", "wait" } /\ pc' # pc)
           => pc' \in { "wait", "complete", "checkTreeHash" }]_vars
\* an Upload with jobs = 0 of a two-byte file: the producer holds the first
\* range and nobody receives it
C36_Witness ==
    /\ mode = "upload" /\ BlockedOnHandOff /\ size = 2 /\ partSize = 2
    /\ yielded = << Range(0, 2) >> /\ invoked = << 0 >>

\* ---------------------------------------------------------------- C37
\* C37 as stated: job validation always ends by returning a value (success or
\* an error), never by an abnormal abort, for every job description the remote
\* interface allows, its optional fields present or absent.
C37_AsStated ==
    (mode = "download" /\ job # None) =>
       (ret # "panic" /\ (pc = "done" => ret # ""))

\* ---------------------------------------------------------------- Upload, twice
\* Upload invoked again on the same Uploader value after it returned. Upload
\* has a value receiver: the run works on a copy of the struct, so file, size
\* and offset of the Uploader stay as New made them, while the copy shares the
\* uploaded map and the *Input (the upload id) with the Uploader. The local
\* file may have changed in between (openFile reads it anew).
UploadAgain ==
    /\ mode = "upload" /\ pc = "done" /\ run < MaxRuns
    /\ run' = run + 1
    /\ pc' = "open" /\ ret' = ""
    /\ file' = "none" /\ size' = 0 /\ offset' = 0
    /\ more' = TRUE /\ closed' = FALSE
    /\ wk' = [w \in Workers |-> [st |-> "none", idx |-> 0]]
    /\ yielded' = << >> /\ invoked' = << >> /\ result' = << >>
    /\ examined' = << >> /\ listed' = << >> /\ declared' = << >>
    /\ calls' = [op \in Ops |-> 0] /\ reqs' = {}
    /\ completion' = "" /\ location' = None
    /\ UNCHANGED << mode, partSize, jobs, rng, rangeText, parsed, uploadId, data, dest,
                    uploaded, treeHash, job >>

\* an Uploader as New made it, used with one worker and a part size >= 1
AgainInit == Init /\ mode = "upload" /\ jobs = 1 /\ partSize >= 1

AgainNext ==
    \/ UpOpenFile
    \/ UpInitiate
    \/ UpListPage
    \/ UpListDone
    \/ Spawn
    \/ Produce
    \/ \E w \in Workers : Receive(w)
    \/ \E w \in Workers : FinishUpload(w)
    \/ Close
    \/ \E w \in Workers : Exit(w)
    \/ Wait
    \/ UpComplete
    \/ UploadAgain

AgainSpec == AgainInit /\ [][AgainNext]_vars

\* ---------------------------------------------------------------- C38
\* C38 as stated: each Upload run decides what to skip from its own
\* reconciliation only: in a second Upload on the same Uploader value the
\* cursor starts again at 0 and the confirmed set used by the dispatch holds
\* only offsets confirmed by the part listing of that run, so a part that
\* matched in the first run but no longer matches the local file is
\* dispatched again.
C38_AsStated ==
    (mode = "upload" /\ run > 1) =>
       /\ pc \in { "open", "initiate", "reconcile", "spawn" } => offset = 0
       /\ (pc = "spawn" \/ Dispatching \/ DispatchReturned) =>
             \A o \in uploaded : ConfirmedBy(o)
       /\ DispatchReturned =>
             \A k \in 1..Len(listed) :
                (Mismatching(listed[k]) /\ PartRange(listed[k])[1].Offset % partSize = 0
                   /\ ~ConfirmedBy(PartRange(listed[k])[1].Offset))
                => Dispatched(PartRange(listed[k])[1].Offset)

====
